---- MODULE Spec2Model ----
(***************************************************************************)
(* A model of the valtro-backend control plane: the relational store with  *)
(* soft-delete (users, organizations, projects), the organization, project *)
(* and onboarding handlers with their services and repositories, the Clerk *)
(* webhook reconciler, and the JWT middleware with its JWKS snapshot and   *)
(* identity map.                                                           *)
(***************************************************************************)
EXTENDS Integers, Sequences, FiniteSets, TLC

(***************************************************************************)
(* Bounds of the model.                                                    *)
(***************************************************************************)
MaxOrgs == 2
MaxProjects == 2
NumKeys == 2
MaxWebhookClock == 1
MaxJWKSClock == 5
MaxIdentityClock == 11
MaxAuthClock == 1
MaxFetches == 3
NumCallers == 3
NumLookups == 2
NumWriters == 2

(***************************************************************************)
(* Program constants.                                                      *)
(***************************************************************************)
APIKeyMaxAttempts == 10
MinOrganizationNameLength == 2
MaxOrganizationNameLength == 255
MinProjectNameLength == 2
MaxProjectNameLength == 255

StatusOK == 200
StatusCreated == 201
StatusBadRequest == 400
StatusUnauthorized == 401
StatusForbidden == 403
StatusNotFound == 404
StatusInternalServerError == 500

VARIABLES
    users,      \* the users table: row i has internal id i
    orgs,       \* the organizations table: row i has id i
    projects,   \* the projects table: row i has id i
    resp,       \* the response written for the last HTTP request
    now,        \* the wall clock, in minutes
    jwtCache,   \* the middleware's cache: JWKS snapshot and identity map
    idp,        \* the identity provider's JWKS endpoint
    fetches,    \* the instants of the GETs sent to the JWKS endpoint
    reqs        \* the requests in flight in the middleware

vars == <<users, orgs, projects, resp, now, jwtCache, idp, fetches, reqs>>
middlewareVars == <<now, jwtCache, idp, fetches, reqs>>

(***************************************************************************)
(* Strings.  A name is a run of `lead' spaces followed by a core that has  *)
(* no surrounding whitespace; len and strings.TrimSpace are computed on    *)
(* that representation.                                                    *)
(***************************************************************************)
Str(lead, core) == [lead |-> lead, core |-> core]

CoreLen(core) ==
    CASE core = "" -> 0
      [] core = "A" -> 1
      [] core = "Acme" -> 4
      [] core = "Beta" -> 4
      [] core = "Web" -> 3
      [] core = "Al" -> 2
      [] core = "A B" -> 3
      [] core = "al" -> 2
      [] core = "cy" -> 2
      [] core = "neo" -> 3
      [] core = "test+user_1" -> 11
      [] core = "test+user_2" -> 11
      [] OTHER -> 256

len(s) == s.lead + CoreLen(s.core)

TrimSpace(s) == [lead |-> 0, core |-> s.core]

EmptyString == Str(0, "")

SanitizeString(s) == TrimSpace(s)

\* A *string of a request body: <<>> is nil, <<s>> points to s.
Nil == <<>>
Ptr(s) == <<s>>

(***************************************************************************)
(* Values of the X-User-ID header as the handlers see it.  A positive      *)
(* number is the string form of a UUID; the ids of user rows are their row *)
(* numbers, a larger number is a UUID that names no user row.              *)
(***************************************************************************)
NoHeader == 0
BadUUID == -1
NilUUID == 0

(***************************************************************************)
(* API keys: the prefix followed by the hex of 32 random bytes, drawn here *)
(* from a space of NumKeys keys.                                           *)
(***************************************************************************)
Keys == 1..NumKeys
GenFailed == 0

(***************************************************************************)
(* Errors of the service layer, by type.                                   *)
(***************************************************************************)
NoError == "none"
ErrValidation == "VALIDATION_ERROR"
ErrNotFound == "NOT_FOUND"
ErrForbidden == "FORBIDDEN"
ErrConflict == "CONFLICT"
ErrInternal == "INTERNAL_ERROR"
ErrPlain == "error"

(***************************************************************************)
(* Organization repository.                                                *)
(***************************************************************************)
OrgRow(name, owner) == [name |-> name, owner |-> owner, deleted |-> FALSE]

\* WHERE id = ? AND deleted_at IS NULL
OrgGetByID(tbl, id) == id \in 1..Len(tbl) /\ ~tbl[id].deleted

\* WHERE name = ? AND owner_id = ? AND deleted_at IS NULL
NameExistsForOwner(tbl, name, ownerID) ==
    \E i \in 1..Len(tbl) :
        tbl[i].name = name /\ tbl[i].owner = ownerID /\ ~tbl[i].deleted

\* owner_id REFERENCES users(id): the row must exist, soft-deleted or not.
OrgInsertAccepted(usersTbl, row) == row.owner \in 1..Len(usersTbl)

OrgSoftDelete(tbl, id) == [tbl EXCEPT ![id].deleted = TRUE]

toOrganizationResponse(tbl, id) ==
    [id |-> id, name |-> tbl[id].name, owner |-> tbl[id].owner]

(***************************************************************************)
(* Organization service.  Each operation returns the error it ends with    *)
(* and the table it leaves.                                                *)
(***************************************************************************)
validateCreateOrganization(name) ==
    IF TrimSpace(name) = EmptyString THEN ErrValidation
    ELSE IF len(name) < MinOrganizationNameLength THEN ErrValidation
    ELSE IF len(name) > MaxOrganizationNameLength THEN ErrValidation
    ELSE NoError

CreateOrganization(tbl, usersTbl, name, ownerID) ==
    LET row == OrgRow(TrimSpace(name), ownerID) IN
    IF validateCreateOrganization(name) # NoError
    THEN [err |-> ErrValidation, orgs |-> tbl, id |-> NilUUID]
    ELSE IF NameExistsForOwner(tbl, name, ownerID)
    THEN [err |-> ErrConflict, orgs |-> tbl, id |-> NilUUID]
    ELSE IF ~OrgInsertAccepted(usersTbl, row)
    THEN [err |-> ErrInternal, orgs |-> tbl, id |-> NilUUID]
    ELSE [err |-> NoError, orgs |-> Append(tbl, row), id |-> Len(tbl) + 1]

GetOrganizationByID(tbl, id) ==
    IF OrgGetByID(tbl, id) THEN NoError ELSE ErrNotFound

\* An update that hands the organization to no one.
UpdateOrganizationDisowning(tbl, id, reqName, ownerID) ==
    IF ~OrgGetByID(tbl, id) THEN [err |-> ErrNotFound, orgs |-> tbl]
    ELSE IF tbl[id].owner # ownerID THEN [err |-> ErrForbidden, orgs |-> tbl]
    ELSE [err |-> NoError, orgs |-> [tbl EXCEPT ![id].owner = NilUUID]]

UpdateOrganization(tbl, id, reqName, ownerID) ==
    IF ~OrgGetByID(tbl, id) THEN [err |-> ErrNotFound, orgs |-> tbl]
    ELSE IF tbl[id].owner # ownerID THEN [err |-> ErrForbidden, orgs |-> tbl]
    ELSE IF reqName = Nil THEN [err |-> NoError, orgs |-> tbl]
    ELSE LET trimmedName == TrimSpace(reqName[1]) IN
         IF trimmedName = EmptyString
         THEN [err |-> ErrValidation, orgs |-> tbl]
         ELSE IF NameExistsForOwner(tbl, trimmedName, ownerID)
                 /\ tbl[id].name # trimmedName
         THEN [err |-> ErrConflict, orgs |-> tbl]
         ELSE [err |-> NoError, orgs |-> [tbl EXCEPT ![id].name = trimmedName]]

DeleteOrganization(tbl, id, ownerID) ==
    IF ~OrgGetByID(tbl, id) THEN [err |-> ErrNotFound, orgs |-> tbl]
    ELSE IF tbl[id].owner # ownerID THEN [err |-> ErrForbidden, orgs |-> tbl]
    ELSE [err |-> NoError, orgs |-> OrgSoftDelete(tbl, id)]

(***************************************************************************)
(* Project repository.  gorm adds deleted_at IS NULL to every query on a   *)
(* model with a DeletedAt field; the UNIQUE constraint on api_key and the  *)
(* foreign key cover every row.                                            *)
(***************************************************************************)
\* UpdatedAt is time.Now() of the request that builds or rewrites the row.
ProjectRow(org, name, apiKey) ==
    [org |-> org, name |-> name, apiKey |-> apiKey, deleted |-> FALSE,
     updatedAt |-> now]

ProjectGetByID(tbl, id) == id \in 1..Len(tbl) /\ ~tbl[id].deleted

APIKeyExists(tbl, apiKey) ==
    \E i \in 1..Len(tbl) : tbl[i].apiKey = apiKey /\ ~tbl[i].deleted

NameExistsForOrganization(tbl, name, organizationID) ==
    \E i \in 1..Len(tbl) :
        tbl[i].name = name /\ tbl[i].org = organizationID /\ ~tbl[i].deleted

\* api_key VARCHAR(255) NOT NULL UNIQUE
\* A store without the constraint.
APIKeyNotConstrained(tbl, id, apiKey) == TRUE

APIKeyUniqueAmongRows(tbl, id, apiKey) ==
    \A i \in 1..Len(tbl) : i # id => tbl[i].apiKey # apiKey

\* organization_id REFERENCES organizations(id)
ProjectInsertAccepted(tbl, orgTbl, row) ==
    /\ row.org \in 1..Len(orgTbl)
    /\ APIKeyUniqueAmongRows(tbl, 0, row.apiKey)

ProjectSoftDelete(tbl, id) == [tbl EXCEPT ![id].deleted = TRUE]

\* A response that leaves the key out.
toProjectResponseWithoutKey(tbl, id) ==
    [id |-> id, org |-> tbl[id].org, name |-> tbl[id].name,
     apiKey |-> GenFailed]

toProjectResponse(tbl, id) ==
    [id |-> id, org |-> tbl[id].org, name |-> tbl[id].name,
     apiKey |-> tbl[id].apiKey]

(***************************************************************************)
(* Project service.                                                        *)
(***************************************************************************)
validateCreateProject(organizationID, name) ==
    IF organizationID = NilUUID THEN ErrPlain
    ELSE IF TrimSpace(name) = EmptyString THEN ErrPlain
    ELSE IF len(name) < MinProjectNameLength THEN ErrPlain
    ELSE IF len(name) > MaxProjectNameLength THEN ErrPlain
    ELSE NoError

\* The keys generateUniqueAPIKey can return on the given table: at each of
\* the APIKeyMaxAttempts attempts a key is drawn; a key no live row holds is
\* returned, a key some live row holds leads to the next attempt.
RECURSIVE apiKeyAttempts(_, _)
apiKeyAttempts(tbl, attempt) ==
    IF attempt >= APIKeyMaxAttempts THEN {GenFailed}
    ELSE {k \in Keys : ~APIKeyExists(tbl, k)}
         \cup (IF \E k \in Keys : APIKeyExists(tbl, k)
               THEN apiKeyAttempts(tbl, attempt + 1)
               ELSE {})

generateUniqueAPIKey(tbl) == apiKeyAttempts(tbl, 0)

\* `key' is the outcome of generateUniqueAPIKey for this call.
CreateProject(tbl, orgTbl, organizationID, name, key) ==
    LET row == ProjectRow(organizationID, TrimSpace(name), key) IN
    IF validateCreateProject(organizationID, name) # NoError
    THEN [err |-> ErrPlain, projects |-> tbl, id |-> NilUUID]
    ELSE IF NameExistsForOrganization(tbl, name, organizationID)
    THEN [err |-> ErrPlain, projects |-> tbl, id |-> NilUUID]
    ELSE IF key = GenFailed
    THEN [err |-> ErrPlain, projects |-> tbl, id |-> NilUUID]
    ELSE IF ~ProjectInsertAccepted(tbl, orgTbl, row)
    THEN [err |-> ErrPlain, projects |-> tbl, id |-> NilUUID]
    ELSE [err |-> NoError, projects |-> Append(tbl, row), id |-> Len(tbl) + 1]

GetProjectByID(tbl, id) ==
    IF ProjectGetByID(tbl, id) THEN NoError ELSE ErrPlain

UpdateProject(tbl, id, reqName, organizationID) ==
    IF ~ProjectGetByID(tbl, id) THEN [err |-> ErrPlain, projects |-> tbl]
    ELSE IF tbl[id].org # organizationID THEN [err |-> ErrPlain, projects |-> tbl]
    ELSE IF reqName = Nil
    THEN [err |-> NoError, projects |-> [tbl EXCEPT ![id].updatedAt = now]]
    ELSE LET trimmedName == TrimSpace(reqName[1]) IN
         IF trimmedName = EmptyString
         THEN [err |-> ErrPlain, projects |-> tbl]
         ELSE IF NameExistsForOrganization(tbl, trimmedName, organizationID)
                 /\ tbl[id].name # trimmedName
         THEN [err |-> ErrPlain, projects |-> tbl]
         ELSE [err |-> NoError,
               projects |-> [tbl EXCEPT ![id].name = trimmedName,
                                        ![id].updatedAt = now]]

DeleteProject(tbl, id, organizationID) ==
    IF ~ProjectGetByID(tbl, id) THEN [err |-> ErrPlain, projects |-> tbl]
    ELSE IF tbl[id].org # organizationID THEN [err |-> ErrPlain, projects |-> tbl]
    ELSE [err |-> NoError, projects |-> ProjectSoftDelete(tbl, id)]

\* A regeneration that stores the new key in a row of its own and keeps
\* the row with the previous key.
RegenerateAPIKeyRetaining(tbl, id, organizationID, key) ==
    IF ~ProjectGetByID(tbl, id) \/ key = GenFailed
    THEN [err |-> ErrPlain, projects |-> tbl]
    ELSE [err |-> NoError,
          projects |-> [i \in 1..Len(tbl) |->
                           IF i = id
                           THEN [tbl[i] EXCEPT !.apiKey = key, !.updatedAt = now]
                           ELSE IF tbl[i].deleted
                           THEN [tbl[i] EXCEPT !.apiKey = tbl[id].apiKey,
                                               !.deleted = FALSE]
                           ELSE tbl[i]]]

\* `key' is the outcome of generateUniqueAPIKey for this call.
RegenerateAPIKey(tbl, id, organizationID, key) ==
    IF ~ProjectGetByID(tbl, id) THEN [err |-> ErrPlain, projects |-> tbl]
    ELSE IF tbl[id].org # organizationID THEN [err |-> ErrPlain, projects |-> tbl]
    ELSE IF key = GenFailed THEN [err |-> ErrPlain, projects |-> tbl]
    ELSE IF ~APIKeyUniqueAmongRows(tbl, id, key)
    THEN [err |-> ErrPlain, projects |-> tbl]
    ELSE [err |-> NoError,
          projects |-> [tbl EXCEPT ![id].apiKey = key, ![id].updatedAt = now]]

(***************************************************************************)
(* Requests.                                                               *)
(***************************************************************************)
Principals == 1..Len(users)
OrgIDs == 1..MaxOrgs
ProjectIDs == 1..MaxProjects
OrgNameInputs == {Str(0, "Acme"), Str(1, "Acme"), Str(0, "Beta")}
ProjectNameInputs == {Str(0, "Web"), Str(1, "Web")}

\* The response of a handler: the operation, the status code, the principal
\* (the X-User-ID value the request carried), the organization and project
\* the request addressed or created, the name it submitted and the records
\* in the data of the body.
Response(op, status, uid, org, proj, name, body) ==
    [op |-> op, status |-> status, uid |-> uid, org |-> org, proj |-> proj,
     name |-> name, body |-> body]

NoResponse == Response("none", 0, NoHeader, NilUUID, NilUUID, Nil, <<>>)

(***************************************************************************)
(* utils/validator                                                         *)
(***************************************************************************)
ValidateCreateOrganizationRequest(name) ==
    /\ TrimSpace(name) # EmptyString
    /\ len(TrimSpace(name)) >= MinOrganizationNameLength
    /\ len(TrimSpace(name)) <= MaxOrganizationNameLength

(***************************************************************************)
(* Organization handler.                                                   *)
(***************************************************************************)
\* The status the X-User-ID check of a handler ends with, StatusOK when it
\* passes.
ExtractUserID(hv) ==
    IF hv = NoHeader THEN StatusUnauthorized
    ELSE IF hv = BadUUID THEN StatusBadRequest
    ELSE StatusOK

Organization_Create(hv, name) ==
    LET r == CreateOrganization(orgs, users, SanitizeString(name), hv)
        status ==
            IF ExtractUserID(hv) # StatusOK THEN ExtractUserID(hv)
            ELSE IF ~ValidateCreateOrganizationRequest(name) THEN StatusBadRequest
            ELSE IF r.err # NoError THEN StatusBadRequest
            ELSE StatusCreated
    IN  /\ status = StatusCreated => Len(orgs) < MaxOrgs
        /\ orgs' = IF status = StatusCreated THEN r.orgs ELSE orgs
        /\ resp' = Response("organization.create", status, hv,
                            IF status = StatusCreated THEN r.id ELSE NilUUID,
                            NilUUID, Nil,
                            IF status = StatusCreated
                            THEN <<toOrganizationResponse(r.orgs, r.id)>>
                            ELSE <<>>)
        /\ UNCHANGED <<users, projects>>

Organization_GetByID(hv, id) ==
    LET status == IF GetOrganizationByID(orgs, id) # NoError
                  THEN StatusNotFound ELSE StatusOK
    IN  /\ resp' = Response("organization.get", status, hv, id, NilUUID, Nil,
                            IF status = StatusOK
                            THEN <<toOrganizationResponse(orgs, id)>>
                            ELSE <<>>)
        /\ UNCHANGED <<users, orgs, projects>>

Organization_Update(hv, id, reqName) ==
    LET sanitized == IF reqName = Nil THEN Nil
                     ELSE Ptr(SanitizeString(reqName[1]))
        r == UpdateOrganization(orgs, id, sanitized, hv)
        status ==
            IF ExtractUserID(hv) # StatusOK THEN ExtractUserID(hv)
            ELSE IF reqName # Nil /\ ~ValidateCreateOrganizationRequest(reqName[1])
            THEN StatusBadRequest
            ELSE IF r.err # NoError THEN StatusBadRequest
            ELSE StatusOK
    IN  /\ orgs' = IF status = StatusOK THEN r.orgs ELSE orgs
        /\ resp' = Response("organization.update", status, hv, id, NilUUID, Nil,
                            IF status = StatusOK
                            THEN <<toOrganizationResponse(r.orgs, id)>>
                            ELSE <<>>)
        /\ UNCHANGED <<users, projects>>

Organization_Delete(hv, id) ==
    LET r == DeleteOrganization(orgs, id, hv)
        status ==
            IF ExtractUserID(hv) # StatusOK THEN ExtractUserID(hv)
            ELSE IF r.err # NoError THEN StatusBadRequest
            ELSE StatusOK
    IN  /\ orgs' = IF status = StatusOK THEN r.orgs ELSE orgs
        /\ resp' = Response("organization.delete", status, hv, id, NilUUID, Nil,
                            <<>>)
        /\ UNCHANGED <<users, projects>>

(***************************************************************************)
(* Project handler that validates ownership from X-User-ID.                *)
(***************************************************************************)
\* Both helpers return the status they respond with, StatusOK when the
\* caller owns the organization and nothing has been written.
validateProjectOwnership(hv, projectID) ==
    IF hv = NoHeader THEN StatusUnauthorized
    ELSE IF hv = BadUUID THEN StatusBadRequest
    ELSE IF GetProjectByID(projects, projectID) # NoError THEN StatusNotFound
    ELSE IF GetOrganizationByID(orgs, projects[projectID].org) # NoError
    THEN StatusNotFound
    ELSE IF orgs[projects[projectID].org].owner # hv THEN StatusForbidden
    ELSE StatusOK

validateOrganizationOwnership(hv, orgID) ==
    IF hv = NoHeader THEN StatusUnauthorized
    ELSE IF hv = BadUUID THEN StatusBadRequest
    ELSE IF GetOrganizationByID(orgs, orgID) # NoError THEN StatusNotFound
    ELSE IF orgs[orgID].owner # hv THEN StatusForbidden
    ELSE StatusOK

Project_Create(hv, orgID, name) ==
    \E key \in generateUniqueAPIKey(projects) :
    LET r == CreateProject(projects, orgs, orgID, name, key)
        status ==
            IF validateOrganizationOwnership(hv, orgID) # StatusOK
            THEN validateOrganizationOwnership(hv, orgID)
            ELSE IF r.err # NoError THEN StatusBadRequest
            ELSE StatusCreated
    IN  /\ status = StatusCreated => Len(projects) < MaxProjects
        /\ projects' = IF status = StatusCreated THEN r.projects ELSE projects
        /\ resp' = Response("project.create", status, hv, orgID,
                            IF status = StatusCreated THEN r.id ELSE NilUUID,
                            Nil,
                            IF status = StatusCreated
                            THEN <<toProjectResponse(r.projects, r.id)>>
                            ELSE <<>>)
        /\ UNCHANGED <<users, orgs>>

Project_GetByID(hv, projectID) ==
    LET status ==
            IF validateProjectOwnership(hv, projectID) # StatusOK
            THEN validateProjectOwnership(hv, projectID)
            ELSE IF GetProjectByID(projects, projectID) # NoError
            THEN StatusNotFound
            ELSE StatusOK
    IN  /\ resp' = Response("project.get", status, hv, NilUUID, projectID, Nil,
                            IF status = StatusOK
                            THEN <<toProjectResponse(projects, projectID)>>
                            ELSE <<>>)
        /\ UNCHANGED <<users, orgs, projects>>

\* An update that stores the trimmed name before it looks for another
\* project of the organization with that name.
Project_UpdateStoringBeforeChecking(hv, projectID, reqName) ==
    LET v == validateProjectOwnership(hv, projectID)
        r == UpdateProject(projects, projectID, reqName, projects[projectID].org)
        status ==
            IF v # StatusOK THEN v
            ELSE IF GetProjectByID(projects, projectID) # NoError
            THEN StatusNotFound
            ELSE IF r.err # NoError THEN StatusBadRequest
            ELSE StatusOK
    IN  /\ projects' = IF status = StatusOK THEN r.projects
                       ELSE IF status = StatusBadRequest /\ reqName # Nil
                       THEN [projects EXCEPT
                                ![projectID].name = TrimSpace(reqName[1])]
                       ELSE projects
        /\ resp' = Response("project.update", status, hv, NilUUID, projectID,
                            Nil, <<>>)
        /\ UNCHANGED <<users, orgs>>

Project_Update(hv, projectID, reqName) ==
    LET v == validateProjectOwnership(hv, projectID)
        r == UpdateProject(projects, projectID, reqName, projects[projectID].org)
        status ==
            IF v # StatusOK THEN v
            ELSE IF GetProjectByID(projects, projectID) # NoError
            THEN StatusNotFound
            ELSE IF r.err # NoError THEN StatusBadRequest
            ELSE StatusOK
    IN  /\ projects' = IF status = StatusOK THEN r.projects ELSE projects
        /\ resp' = Response("project.update", status, hv, NilUUID, projectID,
                            Nil,
                            IF status = StatusOK
                            THEN <<toProjectResponse(r.projects, projectID)>>
                            ELSE <<>>)
        /\ UNCHANGED <<users, orgs>>

Project_Delete(hv, projectID) ==
    LET v == validateProjectOwnership(hv, projectID)
        r == DeleteProject(projects, projectID, projects[projectID].org)
        status ==
            IF v # StatusOK THEN v
            ELSE IF GetProjectByID(projects, projectID) # NoError
            THEN StatusNotFound
            ELSE IF r.err # NoError THEN StatusBadRequest
            ELSE StatusOK
    IN  /\ projects' = IF status = StatusOK THEN r.projects ELSE projects
        /\ resp' = Response("project.delete", status, hv, NilUUID, projectID,
                            Nil, <<>>)
        /\ UNCHANGED <<users, orgs>>

Project_RegenerateAPIKey(hv, projectID) ==
    \E key \in generateUniqueAPIKey(projects) :
    LET v == validateProjectOwnership(hv, projectID)
        r == RegenerateAPIKey(projects, projectID, projects[projectID].org, key)
        status ==
            IF v # StatusOK THEN v
            ELSE IF GetProjectByID(projects, projectID) # NoError
            THEN StatusNotFound
            ELSE IF r.err # NoError THEN StatusBadRequest
            ELSE StatusOK
    IN  /\ projects' = IF status = StatusOK THEN r.projects ELSE projects
        /\ resp' = Response("project.regenerate", status, hv, NilUUID,
                            projectID, Nil,
                            IF status = StatusOK
                            THEN <<toProjectResponse(r.projects, projectID)>>
                            ELSE <<>>)
        /\ UNCHANGED <<users, orgs>>

(***************************************************************************)
(* Project handler of internal/handlers/project/project.go, which takes    *)
(* the organization from the X-Organization-ID header.  u is the principal *)
(* the JWT middleware of the route authenticated; the handler does not     *)
(* read it.                                                                *)
(***************************************************************************)
OrgHeaderValues == {NoHeader} \cup OrgIDs

ProjectXOrg_Create(u, orgID, name) ==
    \E key \in generateUniqueAPIKey(projects) :
    LET r == CreateProject(projects, orgs, orgID, name, key)
        status == IF r.err # NoError THEN StatusBadRequest ELSE StatusCreated
    IN  /\ status = StatusCreated => Len(projects) < MaxProjects
        /\ projects' = IF status = StatusCreated THEN r.projects ELSE projects
        /\ resp' = Response("project.create", status, u, orgID,
                            IF status = StatusCreated THEN r.id ELSE NilUUID,
                            Nil,
                            IF status = StatusCreated
                            THEN <<toProjectResponse(r.projects, r.id)>>
                            ELSE <<>>)
        /\ UNCHANGED <<users, orgs>>

ProjectXOrg_GetByID(u, projectID) ==
    LET status == IF GetProjectByID(projects, projectID) # NoError
                  THEN StatusNotFound ELSE StatusOK
    IN  /\ resp' = Response("project.get", status, u, NilUUID, projectID, Nil,
                            IF status = StatusOK
                            THEN <<toProjectResponse(projects, projectID)>>
                            ELSE <<>>)
        /\ UNCHANGED <<users, orgs, projects>>

ProjectXOrg_Update(u, orgHdr, projectID, reqName) ==
    LET r == UpdateProject(projects, projectID, reqName, orgHdr)
        status ==
            IF orgHdr = NoHeader THEN StatusUnauthorized
            ELSE IF orgHdr = BadUUID THEN StatusBadRequest
            ELSE IF r.err # NoError THEN StatusBadRequest
            ELSE StatusOK
    IN  /\ projects' = IF status = StatusOK THEN r.projects ELSE projects
        /\ resp' = Response("project.update", status, u, NilUUID, projectID,
                            Nil,
                            IF status = StatusOK
                            THEN <<toProjectResponse(r.projects, projectID)>>
                            ELSE <<>>)
        /\ UNCHANGED <<users, orgs>>

ProjectXOrg_Delete(u, orgHdr, projectID) ==
    LET r == DeleteProject(projects, projectID, orgHdr)
        status ==
            IF orgHdr = NoHeader THEN StatusUnauthorized
            ELSE IF orgHdr = BadUUID THEN StatusBadRequest
            ELSE IF r.err # NoError THEN StatusBadRequest
            ELSE StatusOK
    IN  /\ projects' = IF status = StatusOK THEN r.projects ELSE projects
        /\ resp' = Response("project.delete", status, u, NilUUID, projectID,
                            Nil, <<>>)
        /\ UNCHANGED <<users, orgs>>

ProjectXOrg_RegenerateAPIKey(u, orgHdr, projectID) ==
    \E key \in generateUniqueAPIKey(projects) :
    LET r == RegenerateAPIKey(projects, projectID, orgHdr, key)
        status ==
            IF orgHdr = NoHeader THEN StatusUnauthorized
            ELSE IF orgHdr = BadUUID THEN StatusBadRequest
            ELSE IF r.err # NoError THEN StatusBadRequest
            ELSE StatusOK
    IN  /\ projects' = IF status = StatusOK THEN r.projects ELSE projects
        /\ resp' = Response("project.regenerate", status, u, NilUUID,
                            projectID, Nil,
                            IF status = StatusOK
                            THEN <<toProjectResponse(r.projects, projectID)>>
                            ELSE <<>>)
        /\ UNCHANGED <<users, orgs>>

(***************************************************************************)
(* Onboarding handler.  The organization and the project are created       *)
(* through services bound to one transaction; `fault' is what the          *)
(* environment does to this request: nothing, a failure to begin or to     *)
(* commit the transaction, or a panic after the transaction has begun.     *)
(***************************************************************************)
Faults == {"none", "begin", "commit", "panic"}

Onboarding_CompleteOnboarding(hv, organizationName, projectName, fault) ==
    \E key \in generateUniqueAPIKey(projects) :
    LET o == CreateOrganization(orgs, users, organizationName, hv)
        p == CreateProject(projects, o.orgs, o.id, projectName, key)
        committed ==
            /\ ExtractUserID(hv) = StatusOK
            /\ fault = "none"
            /\ o.err = NoError
            /\ p.err = NoError
        status ==
            IF ExtractUserID(hv) # StatusOK THEN ExtractUserID(hv)
            ELSE IF fault = "begin" THEN StatusInternalServerError
            \* recover() in the deferred function rolls back and returns
            \* normally: nothing was written, net/http answers 200.
            ELSE IF fault = "panic" THEN StatusOK
            ELSE IF o.err # NoError THEN StatusBadRequest
            ELSE IF p.err # NoError THEN StatusBadRequest
            ELSE IF fault = "commit" THEN StatusInternalServerError
            ELSE StatusCreated
    IN  /\ committed => Len(orgs) < MaxOrgs /\ Len(projects) < MaxProjects
        /\ orgs' = IF committed THEN o.orgs ELSE orgs
        /\ projects' = IF committed THEN p.projects ELSE projects
        /\ resp' = Response("onboarding", status, hv,
                            IF committed THEN o.id ELSE NilUUID,
                            IF committed THEN p.id ELSE NilUUID,
                            Ptr(organizationName),
                            IF committed
                            THEN <<toOrganizationResponse(o.orgs, o.id),
                                   toProjectResponse(p.projects, p.id)>>
                            ELSE <<>>)
        /\ UNCHANGED users

OrganizationRequests ==
    \/ \E hv \in Principals, name \in OrgNameInputs :
           /\ Organization_Create(hv, name)
           /\ UNCHANGED middlewareVars
    \/ \E hv \in Principals, id \in OrgIDs :
           /\ Organization_GetByID(hv, id)
           /\ UNCHANGED middlewareVars
    \/ \E hv \in Principals, id \in OrgIDs,
          reqName \in {Nil} \cup {Ptr(n) : n \in OrgNameInputs} :
           /\ Organization_Update(hv, id, reqName)
           /\ UNCHANGED middlewareVars
    \/ \E hv \in Principals, id \in OrgIDs :
           /\ Organization_Delete(hv, id)
           /\ UNCHANGED middlewareVars

ProjectRequests ==
    \/ \E hv \in Principals, orgID \in OrgIDs, name \in ProjectNameInputs :
           /\ Project_Create(hv, orgID, name)
           /\ UNCHANGED middlewareVars
    \/ \E hv \in Principals, id \in ProjectIDs :
           /\ Project_GetByID(hv, id)
           /\ UNCHANGED middlewareVars
    \/ \E hv \in Principals, id \in ProjectIDs,
          reqName \in {Nil} \cup {Ptr(n) : n \in ProjectNameInputs} :
           /\ Project_Update(hv, id, reqName)
           /\ UNCHANGED middlewareVars
    \/ \E hv \in Principals, id \in ProjectIDs :
           /\ Project_Delete(hv, id)
           /\ UNCHANGED middlewareVars
    \/ \E hv \in Principals, id \in ProjectIDs :
           /\ Project_RegenerateAPIKey(hv, id)
           /\ UNCHANGED middlewareVars

ProjectXOrgRequests ==
    \/ \E u \in Principals, orgID \in {NilUUID} \cup OrgIDs,
          name \in ProjectNameInputs :
           /\ ProjectXOrg_Create(u, orgID, name)
           /\ UNCHANGED middlewareVars
    \/ \E u \in Principals, id \in ProjectIDs :
           /\ ProjectXOrg_GetByID(u, id)
           /\ UNCHANGED middlewareVars
    \/ \E u \in Principals, orgHdr \in OrgHeaderValues, id \in ProjectIDs,
          reqName \in {Nil} \cup {Ptr(n) : n \in ProjectNameInputs} :
           /\ ProjectXOrg_Update(u, orgHdr, id, reqName)
           /\ UNCHANGED middlewareVars
    \/ \E u \in Principals, orgHdr \in OrgHeaderValues, id \in ProjectIDs :
           /\ ProjectXOrg_Delete(u, orgHdr, id)
           /\ UNCHANGED middlewareVars
    \/ \E u \in Principals, orgHdr \in OrgHeaderValues, id \in ProjectIDs :
           /\ ProjectXOrg_RegenerateAPIKey(u, orgHdr, id)
           /\ UNCHANGED middlewareVars

OnboardingRequests ==
    \E hv \in Principals, organizationName \in OrgNameInputs,
       projectName \in ProjectNameInputs, fault \in Faults :
        /\ Onboarding_CompleteOnboarding(hv, organizationName, projectName,
                                         fault)
        /\ UNCHANGED middlewareVars

(***************************************************************************)
(* User repository.  Queries through gorm see the rows that are not        *)
(* soft-deleted; the unique indexes of the users table cover every row.    *)
(***************************************************************************)
ClerkIDs == {"user_1", "user_2"}

Email(local, domain) == [local |-> local, domain |-> domain]
EmptyEmail == Email("", "")

UserRow(clerkUserID, email, fullName, username, imageURL, t) ==
    [clerkUserID |-> clerkUserID, email |-> email, fullName |-> fullName,
     username |-> username, imageURL |-> imageURL, emailVerified |-> FALSE,
     deleted |-> FALSE, deletedAt |-> 0, updatedAt |-> t]

\* First(&user, "id = ?", id)
UserGetByID(tbl, id) == id \in 1..Len(tbl) /\ ~tbl[id].deleted

\* Unscoped().First(&user, "clerk_user_id = ?", clerkUserID): soft-deleted
\* rows are found too.
GetByClerkUserIDUnscoped(tbl, clerkUserID) ==
    LET found == {i \in 1..Len(tbl) : tbl[i].clerkUserID = clerkUserID}
    IN  IF found = {} THEN NilUUID ELSE CHOOSE i \in found : TRUE

\* First(&user, "clerk_user_id = ?", clerkUserID): the id of the row, or
\* NilUUID for gorm.ErrRecordNotFound.
GetByClerkUserID(tbl, clerkUserID) ==
    LET found == {i \in 1..Len(tbl) :
                     tbl[i].clerkUserID = clerkUserID /\ ~tbl[i].deleted}
    IN  IF found = {} THEN NilUUID ELSE CHOOSE i \in found : TRUE

GetByUsername(tbl, username) ==
    LET found == {i \in 1..Len(tbl) :
                     tbl[i].username = Ptr(username) /\ ~tbl[i].deleted}
    IN  IF found = {} THEN NilUUID ELSE CHOOSE i \in found : TRUE

ClerkUserIDExists(tbl, clerkUserID) ==
    GetByClerkUserID(tbl, clerkUserID) # NilUUID

\* idx_clerk_user, idx_user_email and idx_username, for the row written
\* under `id' (0 for an insert).
UserIndexesAccept(tbl, id, row) ==
    \A i \in 1..Len(tbl) :
        i # id =>
            /\ tbl[i].clerkUserID # row.clerkUserID
            /\ tbl[i].email # row.email
            /\ row.username # Nil => tbl[i].username # row.username

(***************************************************************************)
(* User service.                                                           *)
(***************************************************************************)
validateCreateUser(req) ==
    IF req.clerkUserID = "" THEN ErrValidation
    ELSE IF req.email = EmptyEmail THEN ErrValidation
    ELSE IF TrimSpace(req.fullName) = EmptyString THEN ErrValidation
    ELSE IF len(req.fullName) < 2 THEN ErrValidation
    ELSE IF req.username # Nil /\ req.username[1] # EmptyString
            /\ len(req.username[1]) < 3
    THEN ErrValidation
    ELSE NoError

\* The row CreateUser builds: EmailVerified of the request is not copied.
CreateUser(tbl, req, t) ==
    LET row == UserRow(req.clerkUserID, req.email, TrimSpace(req.fullName),
                       req.username, req.imageURL, t) IN
    IF validateCreateUser(req) # NoError
    THEN [err |-> ErrValidation, users |-> tbl]
    ELSE IF ClerkUserIDExists(tbl, req.clerkUserID)
    THEN [err |-> ErrConflict, users |-> tbl]
    ELSE IF ~UserIndexesAccept(tbl, 0, row)
    THEN [err |-> ErrInternal, users |-> tbl]
    ELSE [err |-> NoError, users |-> Append(tbl, row)]

UpdateUser(tbl, id, req, t) ==
    IF ~UserGetByID(tbl, id) THEN [err |-> ErrNotFound, users |-> tbl]
    ELSE LET row == [tbl[id] EXCEPT
                        !.fullName = IF req.fullName # Nil
                                     THEN TrimSpace(req.fullName[1]) ELSE @,
                        !.username = IF req.username # Nil
                                     THEN req.username ELSE @,
                        !.imageURL = IF req.imageURL # Nil
                                     THEN req.imageURL[1] ELSE @,
                        !.updatedAt = t]
         IN  IF /\ req.username # Nil
                /\ req.username[1] # EmptyString
                /\ GetByUsername(tbl, req.username[1]) \notin {NilUUID, id}
             THEN [err |-> ErrConflict, users |-> tbl]
             ELSE IF ~UserIndexesAccept(tbl, id, row)
             THEN [err |-> ErrInternal, users |-> tbl]
             ELSE [err |-> NoError, users |-> [tbl EXCEPT ![id] = row]]

\* db.Delete on a model with DeletedAt sets deleted_at to the current time.
\* A delete without the condition on the id.
DeleteEveryUser(tbl, id, t) ==
    [err |-> NoError,
     users |-> [i \in 1..Len(tbl) |->
                   [tbl[i] EXCEPT !.deleted = TRUE, !.deletedAt = t]]]

DeleteUser(tbl, id, t) ==
    IF ~UserGetByID(tbl, id) THEN [err |-> ErrNotFound, users |-> tbl]
    ELSE [err |-> NoError,
          users |-> [tbl EXCEPT ![id].deleted = TRUE, ![id].deletedAt = t]]

(***************************************************************************)
(* Webhook handler.  An event is its type and its data: the fields of a   *)
(* ClerkUser, and whether their JSON types are those of the struct.        *)
(***************************************************************************)
ClerkUser(id, email, firstName, lastName, username) ==
    [typed |-> TRUE, id |-> id,
     emailAddresses |-> <<[id |-> "idn_1", email |-> email, verified |-> TRUE]>>,
     primaryEmailAddressID |-> Ptr("idn_1"),
     firstName |-> firstName, lastName |-> lastName,
     username |-> username, imageURL |-> ""]

\* *FirstName + " " + *LastName, for the names the payloads carry.
JoinNames(firstName, lastName) ==
    Str(firstName.lead,
        CASE firstName.core = "A" /\ TrimSpace(lastName).core = "B" -> "A B"
          [] OTHER -> firstName.core)

\* fmt.Sprintf("test+%s@clerk.dev", clerkUser.ID)
TestEmail(id) ==
    Email(CASE id = "user_1" -> "test+user_1" [] OTHER -> "test+user_2",
          "clerk.dev")

clerkUserToCreateRequest(clerkUser) ==
    LET addrs == clerkUser.emailAddresses
        primary == {i \in 1..Len(addrs) :
                       /\ clerkUser.primaryEmailAddressID # Nil
                       /\ addrs[i].id = clerkUser.primaryEmailAddressID[1]}
        first == IF primary = {} THEN 0
                 ELSE CHOOSE i \in primary : \A k \in primary : i <= k
        email1 == IF first = 0 THEN EmptyEmail ELSE addrs[first].email
        usesFirst == email1 = EmptyEmail /\ Len(addrs) > 0
        email2 == IF usesFirst THEN addrs[1].email ELSE email1
        email == IF email2 = EmptyEmail THEN TestEmail(clerkUser.id) ELSE email2
        emailVerified ==
            IF email2 = EmptyEmail THEN FALSE
            ELSE IF usesFirst THEN addrs[1].verified
            ELSE addrs[first].verified
        name == IF clerkUser.firstName # Nil /\ clerkUser.lastName # Nil
                THEN TrimSpace(JoinNames(clerkUser.firstName[1],
                                         clerkUser.lastName[1]))
                ELSE IF clerkUser.firstName # Nil
                THEN TrimSpace(clerkUser.firstName[1])
                ELSE IF clerkUser.lastName # Nil
                THEN TrimSpace(clerkUser.lastName[1])
                ELSE EmptyString
        fullName == IF name = EmptyString THEN Str(0, email.local) ELSE name
    IN  [clerkUserID |-> clerkUser.id, email |-> email, fullName |-> fullName,
         username |-> clerkUser.username, imageURL |-> clerkUser.imageURL,
         emailVerified |-> emailVerified]

\* A conversion that takes the full name as clerkUserToCreateRequest does,
\* from the address when the payload has no name.
clerkUserToUpdateRequestNamed(clerkUser) ==
    [fullName |-> Ptr(clerkUserToCreateRequest(clerkUser).fullName),
     username |-> clerkUser.username,
     imageURL |-> Ptr(clerkUser.imageURL)]

clerkUserToUpdateRequest(clerkUser) ==
    LET name == IF clerkUser.firstName # Nil /\ clerkUser.lastName # Nil
                THEN TrimSpace(JoinNames(clerkUser.firstName[1],
                                         clerkUser.lastName[1]))
                ELSE IF clerkUser.firstName # Nil
                THEN TrimSpace(clerkUser.firstName[1])
                ELSE IF clerkUser.lastName # Nil
                THEN TrimSpace(clerkUser.lastName[1])
                ELSE EmptyString
    IN  [fullName |-> IF name # EmptyString THEN Ptr(name) ELSE Nil,
         username |-> clerkUser.username,
         imageURL |-> Ptr(clerkUser.imageURL)]

\* json.Unmarshal(jsonData, &clerkUser) returns no error.
parseClerkUserData(data) == data.typed

\* A handler that finds the words in no error.
SaysAlreadyExistsNever(err) == FALSE

\* strings.Contains(strings.ToLower(err.Error()), "already exists"): of the
\* errors of CreateUser only the conflict on the Clerk id carries the words.
SaysAlreadyExists(err) == err = ErrConflict

WebhookResult(tbl, status, message) ==
    [users |-> tbl, status |-> status, message |-> message]

handleUserCreated(tbl, clerkUser, t) ==
    LET r == CreateUser(tbl, clerkUserToCreateRequest(clerkUser), t) IN
    IF ~parseClerkUserData(clerkUser)
    THEN WebhookResult(tbl, StatusBadRequest, "Failed to parse user data")
    ELSE IF r.err = NoError
    THEN WebhookResult(r.users, StatusOK, "User created successfully")
    ELSE IF SaysAlreadyExists(r.err)
    THEN WebhookResult(tbl, StatusOK, "User already exists")
    ELSE WebhookResult(tbl, StatusInternalServerError, "Failed to create user")

handleUserUpdated(tbl, clerkUser, t) ==
    LET id == GetByClerkUserID(tbl, clerkUser.id)
        r == UpdateUser(tbl, id, clerkUserToUpdateRequest(clerkUser), t)
    IN  IF ~parseClerkUserData(clerkUser)
        THEN WebhookResult(tbl, StatusBadRequest, "Failed to parse user data")
        ELSE IF id = NilUUID
        THEN WebhookResult(tbl, StatusNotFound, "User not found")
        ELSE IF r.err # NoError
        THEN WebhookResult(tbl, StatusInternalServerError,
                           "Failed to update user")
        ELSE WebhookResult(r.users, StatusOK, "User updated successfully")

handleUserDeleted(tbl, clerkUser, t) ==
    LET id == GetByClerkUserID(tbl, clerkUser.id)
        r == DeleteUser(tbl, id, t)
    IN  IF ~parseClerkUserData(clerkUser)
        THEN WebhookResult(tbl, StatusBadRequest, "Failed to parse user data")
        ELSE IF id = NilUUID
        THEN WebhookResult(tbl, StatusOK,
                           "User already deleted or doesn't exist")
        ELSE IF r.err # NoError
        THEN WebhookResult(tbl, StatusInternalServerError,
                           "Failed to delete user")
        ELSE WebhookResult(r.users, StatusOK, "User deleted successfully")

\* A switch whose default case is the case of user.created.
dispatchByDefaultCreated(tbl, event, t) ==
    CASE event.type = "user.updated" -> handleUserUpdated(tbl, event.data, t)
      [] event.type = "user.deleted" -> handleUserDeleted(tbl, event.data, t)
      [] OTHER -> handleUserCreated(tbl, event.data, t)

\* The store and the response a verified event leaves when it is handled
\* at instant t.
dispatch(tbl, event, t) ==
    CASE event.type = "user.created" -> handleUserCreated(tbl, event.data, t)
      [] event.type = "user.updated" -> handleUserUpdated(tbl, event.data, t)
      [] event.type = "user.deleted" -> handleUserDeleted(tbl, event.data, t)
      [] OTHER -> WebhookResult(tbl, StatusOK, "Event type not handled")

\* A handler that routes the event whatever h.svix.Verify returned.
HandleClerkWebhookUnverified(event, verified) ==
    LET r == dispatch(users, event, now)
    IN  /\ users' = r.users
        /\ resp' = [op |-> "webhook", status |-> r.status,
                    message |-> r.message, event |-> event,
                    verified |-> verified]
        /\ UNCHANGED <<orgs, projects, now, jwtCache, idp, fetches, reqs>>

\* A handler that drops the subject of the event from the identity map.
HandleClerkWebhookInvalidating(event, verified) ==
    LET r == IF verified THEN dispatch(users, event, now)
             ELSE WebhookResult(users, StatusUnauthorized,
                                "Invalid webhook signature")
    IN  /\ users' = r.users
        /\ jwtCache' = [jwtCache EXCEPT !.userIDCache[event.data.id] = NilUUID]
        /\ resp' = [op |-> "webhook", status |-> r.status,
                    message |-> r.message, event |-> event,
                    verified |-> verified]
        /\ UNCHANGED <<orgs, projects, now, idp, fetches, reqs>>

\* `verified' is whether h.svix.Verify(body, headers) returned nil.
HandleClerkWebhook(event, verified) ==
    LET r == IF verified THEN dispatch(users, event, now)
             ELSE WebhookResult(users, StatusUnauthorized,
                                "Invalid webhook signature")
    IN  /\ users' = r.users
        /\ resp' = [op |-> "webhook", status |-> r.status,
                    message |-> r.message, event |-> event,
                    verified |-> verified]
        /\ UNCHANGED <<orgs, projects, now, jwtCache, idp, fetches, reqs>>

\* The events delivered: payloads with one verified address, a first name
\* of one letter alone or with a last name, and a username or none; and
\* for each handled type a payload that does not parse.
Emails == {Email("al", "b.co"), Email("cy", "d.co")}
Names == {<<Ptr(Str(0, "A")), Nil>>, <<Ptr(Str(0, "A")), Ptr(Str(0, "B"))>>}
Usernames == {Nil, Ptr(Str(0, "neo"))}

Event(type, data) == [type |-> type, data |-> data]

DeletionEvents ==
    {Event("user.deleted", ClerkUser(id, Email("al", "b.co"), Nil, Nil, Nil)) :
        id \in ClerkIDs}

Events ==
    {Event("user.created", ClerkUser(id, e, n[1], n[2], u)) :
        id \in ClerkIDs, e \in Emails, n \in Names, u \in Usernames}
    \cup {Event("user.updated", ClerkUser(id, Email("al", "b.co"), n[1], n[2], u)) :
        id \in ClerkIDs, n \in Names, u \in Usernames}
    \cup DeletionEvents
    \cup {Event(type, [ClerkUser("user_1", Email("al", "b.co"), Nil, Nil, Nil)
                          EXCEPT !.typed = FALSE]) :
             type \in {"user.created", "user.updated", "user.deleted"}}
    \cup {Event("session.created",
                ClerkUser("user_1", Email("al", "b.co"), Nil, Nil, Nil))}

(***************************************************************************)
(* JWT middleware: the cache.  A JWKS is the set of the key ids it holds;  *)
(* the key of a kid is named by the kid.  userIDCache maps a Clerk id to   *)
(* the internal id, NilUUID where the map has no entry.                    *)
(***************************************************************************)
JWKSTTL == 5
userCacheTTL == 10

JWTCache(jwks, jwksTime, userIDCache, userIDTime) ==
    [jwks |-> jwks, jwksTime |-> jwksTime,
     userIDCache |-> userIDCache, userIDTime |-> userIDTime]

EmptyJWTCache ==
    JWTCache(Nil, 0, [c \in ClerkIDs |-> NilUUID], [c \in ClerkIDs |-> 0])

\* A call of getPublicKeyFromJWKS in flight: where it stands, its kid, the
\* key ids it fetched, and what it returned.
KeyCall(pc, kid, fetched, result) ==
    [pc |-> pc, kid |-> kid, fetched |-> fetched, result |-> result]

\* A call of getCachedInternalUserID in flight: where it stands, its
\* argument, the instant it was made, the id it read, and what it returned.
Lookup(pc, clerkUserID, at, id, result) ==
    [pc |-> pc, clerkUserID |-> clerkUserID, at |-> at, id |-> id,
     result |-> result]

\* The cap on the GETs the model follows.
CanFetch == Len(fetches) < MaxFetches

Callers == DOMAIN reqs

CanStart(p) == reqs[p].pc \in {"idle", "done"}

(***************************************************************************)
(* getPublicKeyFromJWKS(kid), in the steps other goroutines can interleave *)
(* with: the check under the read lock, the GET, the write under the lock. *)
(***************************************************************************)
JWKSFresh(cache, t) == cache.jwks # Nil /\ t - cache.jwksTime < JWKSTTL

findKeyInJWKS(jwks, kid) == IF kid \in jwks THEN "key" ELSE "key not found"

getPublicKeyFromJWKS_Check(p, kid) ==
    /\ CanStart(p)
    /\ reqs' = [reqs EXCEPT ![p] =
                   IF JWKSFresh(jwtCache, now)
                   THEN KeyCall("done", kid, {},
                             findKeyInJWKS(jwtCache.jwks[1], kid))
                   ELSE KeyCall("fetch", kid, {}, "")]
    /\ UNCHANGED <<users, orgs, projects, resp, now, jwtCache, idp, fetches>>

\* A GET whose failure is stored as an empty snapshot of the current time.
getPublicKeyFromJWKS_FetchCachingFailure(p) ==
    /\ reqs[p].pc = "fetch"
    /\ CanFetch
    /\ fetches' = Append(fetches, now)
    /\ jwtCache' = IF idp.up THEN jwtCache
                   ELSE [jwtCache EXCEPT !.jwks = Ptr({}), !.jwksTime = now]
    /\ reqs' = [reqs EXCEPT ![p] =
                   IF idp.up
                   THEN KeyCall("cache", reqs[p].kid, idp.keys, "")
                   ELSE KeyCall("done", reqs[p].kid, {},
                             "failed to fetch JWKS")]
    /\ UNCHANGED <<users, orgs, projects, resp, now, idp>>

\* A GET whose failure is answered from the snapshot, however old.
getPublicKeyFromJWKS_FetchFallingBack(p) ==
    /\ reqs[p].pc = "fetch"
    /\ CanFetch
    /\ fetches' = Append(fetches, now)
    /\ reqs' = [reqs EXCEPT ![p] =
                   IF idp.up
                   THEN KeyCall("cache", reqs[p].kid, idp.keys, "")
                   ELSE IF jwtCache.jwks # Nil
                   THEN KeyCall("done", reqs[p].kid, {},
                             findKeyInJWKS(jwtCache.jwks[1], reqs[p].kid))
                   ELSE KeyCall("done", reqs[p].kid, {},
                             "failed to fetch JWKS")]
    /\ UNCHANGED <<users, orgs, projects, resp, now, jwtCache, idp>>

getPublicKeyFromJWKS_Fetch(p) ==
    /\ reqs[p].pc = "fetch"
    /\ CanFetch
    /\ fetches' = Append(fetches, now)
    /\ reqs' = [reqs EXCEPT ![p] =
                   IF idp.up
                   THEN KeyCall("cache", reqs[p].kid, idp.keys, "")
                   ELSE KeyCall("done", reqs[p].kid, {},
                             "failed to fetch JWKS")]
    /\ UNCHANGED <<users, orgs, projects, resp, now, jwtCache, idp>>

getPublicKeyFromJWKS_Cache(p) ==
    /\ reqs[p].pc = "cache"
    /\ jwtCache' = [jwtCache EXCEPT !.jwks = Ptr(reqs[p].fetched),
                                    !.jwksTime = now]
    /\ reqs' = [reqs EXCEPT ![p] =
                   KeyCall("done", reqs[p].kid, reqs[p].fetched,
                           findKeyInJWKS(reqs[p].fetched, reqs[p].kid))]
    /\ UNCHANGED <<users, orgs, projects, resp, now, idp, fetches>>

(***************************************************************************)
(* getCachedInternalUserID(db, clerkUserID), in its steps: the check under *)
(* the read lock, the query, the write under the lock.                     *)
(***************************************************************************)
UserIDCached(cache, clerkUserID, t) ==
    /\ cache.userIDCache[clerkUserID] # NilUUID
    /\ t - cache.userIDTime[clerkUserID] < userCacheTTL

getCachedInternalUserID_Check(p, clerkUserID) ==
    /\ CanStart(p)
    /\ reqs' = [reqs EXCEPT ![p] =
                   IF UserIDCached(jwtCache, clerkUserID, now)
                   THEN Lookup("done", clerkUserID, now,
                             jwtCache.userIDCache[clerkUserID], "id")
                   ELSE Lookup("query", clerkUserID, now, NilUUID, "")]
    /\ UNCHANGED <<users, orgs, projects, resp, now, jwtCache, idp, fetches>>

getCachedInternalUserID_Query(p) ==
    LET id == GetByClerkUserID(users, reqs[p].clerkUserID) IN
    /\ reqs[p].pc = "query"
    /\ reqs' = [reqs EXCEPT ![p] =
                   IF id = NilUUID
                   THEN Lookup("done", reqs[p].clerkUserID, reqs[p].at, NilUUID,
                             "user not found")
                   ELSE Lookup("store", reqs[p].clerkUserID, reqs[p].at, id, "")]
    /\ UNCHANGED <<users, orgs, projects, resp, now, jwtCache, idp, fetches>>

getCachedInternalUserID_Store(p) ==
    /\ reqs[p].pc = "store"
    /\ jwtCache' = [jwtCache EXCEPT
                       !.userIDCache[reqs[p].clerkUserID] = reqs[p].id,
                       !.userIDTime[reqs[p].clerkUserID] = now]
    /\ reqs' = [reqs EXCEPT ![p] =
                   Lookup("done", reqs[p].clerkUserID, reqs[p].at, reqs[p].id,
                          "id")]
    /\ UNCHANGED <<users, orgs, projects, resp, now, idp, fetches>>

(***************************************************************************)
(* The environment of the middleware: the clock, and the JWKS endpoint     *)
(* going down and coming back.                                             *)
(***************************************************************************)
Tick(bound) ==
    /\ now < bound
    /\ now' = now + 1
    /\ UNCHANGED <<users, orgs, projects, resp, jwtCache, idp, fetches, reqs>>

IdP(up, keys) == [up |-> up, keys |-> keys]

IdP_Outage ==
    /\ idp' = IdP(~idp.up, idp.keys)
    /\ UNCHANGED <<users, orgs, projects, resp, now, jwtCache, fetches, reqs>>

\* The endpoint starts to serve another key set.
IdP_Rotate(keys) ==
    /\ keys # idp.keys
    /\ idp' = IdP(idp.up, keys)
    /\ UNCHANGED <<users, orgs, projects, resp, now, jwtCache, fetches, reqs>>

(***************************************************************************)
(* ClerkJWTMiddleware, for a request that no other goroutine interleaves   *)
(* with.  A request is its Authorization header, split at the scheme, and  *)
(* the X-User-ID header the client sent; a token is empty, malformed or a  *)
(* JWS with a kid, the key that signed it, an expiry and a sub.            *)
(***************************************************************************)
Token(form, kid, signer, expired, sub) ==
    [form |-> form, kid |-> kid, signer |-> signer, expired |-> expired,
     sub |-> sub]

Request(scheme, token, xUserID) ==
    [scheme |-> scheme, token |-> token, xUserID |-> xUserID]

\* A call that sends a GET when the fresh snapshot does not hold the kid.
getPublicKeyFromJWKSRefetchingOnMiss(cache, idpState, kid, t) ==
    IF JWKSFresh(cache, t) /\ kid \in cache.jwks[1]
    THEN [cache |-> cache, fetched |-> FALSE, result |-> "key"]
    ELSE IF ~idpState.up
    THEN [cache |-> cache, fetched |-> TRUE, result |-> "failed to fetch JWKS"]
    ELSE [cache |-> [cache EXCEPT !.jwks = Ptr(idpState.keys), !.jwksTime = t],
          fetched |-> TRUE, result |-> findKeyInJWKS(idpState.keys, kid)]

\* A call that keeps to the snapshot it has, whatever its age.
getPublicKeyFromJWKSNeverStale(cache, idpState, kid, t) ==
    IF cache.jwks # Nil
    THEN [cache |-> cache, fetched |-> FALSE,
          result |-> findKeyInJWKS(cache.jwks[1], kid)]
    ELSE IF ~idpState.up
    THEN [cache |-> cache, fetched |-> TRUE, result |-> "failed to fetch JWKS"]
    ELSE [cache |-> [cache EXCEPT !.jwks = Ptr(idpState.keys), !.jwksTime = t],
          fetched |-> TRUE, result |-> findKeyInJWKS(idpState.keys, kid)]

\* A call of getPublicKeyFromJWKS that runs to its end.
getPublicKeyFromJWKS(cache, idpState, kid, t) ==
    IF JWKSFresh(cache, t)
    THEN [cache |-> cache, fetched |-> FALSE,
          result |-> findKeyInJWKS(cache.jwks[1], kid)]
    ELSE IF ~idpState.up
    THEN [cache |-> cache, fetched |-> TRUE, result |-> "failed to fetch JWKS"]
    ELSE [cache |-> [cache EXCEPT !.jwks = Ptr(idpState.keys), !.jwksTime = t],
          fetched |-> TRUE, result |-> findKeyInJWKS(idpState.keys, kid)]

\* A call of getCachedInternalUserID that runs to its end.
getCachedInternalUserID(cache, usersTbl, clerkUserID, t) ==
    LET id == GetByClerkUserID(usersTbl, clerkUserID) IN
    IF UserIDCached(cache, clerkUserID, t)
    THEN [cache |-> cache, queried |-> FALSE,
          id |-> cache.userIDCache[clerkUserID]]
    ELSE IF id = NilUUID
    THEN [cache |-> cache, queried |-> TRUE, id |-> NilUUID]
    ELSE [cache |-> [cache EXCEPT !.userIDCache[clerkUserID] = id,
                                  !.userIDTime[clerkUserID] = t],
          queried |-> TRUE, id |-> id]

\* jwt.Parse with the key the Keyfunc returned, then the sub claim: the
\* reason the token is refused for, "" when it is accepted.
VerifyTokenIgnoringExpiry(token, keyResult) ==
    IF keyResult # "key" THEN "failed to get public key"
    ELSE IF token.signer # token.kid[1] THEN "signature is invalid"
    ELSE IF token.sub = Nil \/ token.sub[1] = "" THEN "user ID not found"
    ELSE ""

VerifyToken(token, keyResult) ==
    IF keyResult # "key" THEN "failed to get public key"
    ELSE IF token.signer # token.kid[1] THEN "signature is invalid"
    ELSE IF token.expired THEN "token is expired"
    ELSE IF token.sub = Nil \/ token.sub[1] = "" THEN "user ID not found"
    ELSE ""

\* http.Header.Add keeps a value the request already carries.
HeaderAdd(old, value) == IF old = NoHeader THEN value ELSE old

\* r.Header.Set("X-User-ID", internalUserID)
HeaderSet(old, value) == value

\* What the middleware leaves: the status it wrote (0 when it wrote none
\* and called next), the X-User-ID of the request, the cache, and whether
\* it sent a GET to the JWKS endpoint and queried the user store.
Outcome(status, nextCalled, xUserID, cache, fetched, queried) ==
    [status |-> status, nextCalled |-> nextCalled, xUserID |-> xUserID,
     cache |-> cache, fetched |-> fetched, queried |-> queried]

ClerkJWTMiddleware(cache, usersTbl, idpState, request, t) ==
    LET token == request.token
        k == getPublicKeyFromJWKS(cache, idpState, token.kid[1], t)
        u == getCachedInternalUserID(k.cache, usersTbl, token.sub[1], t)
    IN  IF request.scheme # "Bearer " \/ token.form # "jws" \/ token.kid = Nil
        THEN Outcome(StatusUnauthorized, FALSE, request.xUserID, cache,
                     FALSE, FALSE)
        ELSE IF VerifyToken(token, k.result) # ""
        THEN Outcome(StatusUnauthorized, FALSE, request.xUserID, k.cache,
                     k.fetched, FALSE)
        ELSE IF u.id = NilUUID
        THEN Outcome(StatusUnauthorized, FALSE, request.xUserID, u.cache,
                     k.fetched, u.queried)
        ELSE Outcome(0, TRUE, HeaderSet(request.xUserID, u.id), u.cache,
                     k.fetched, u.queried)

Middleware_ServeHTTP(request) ==
    LET o == ClerkJWTMiddleware(jwtCache, users, idp, request, now) IN
    /\ o.fetched => CanFetch
    /\ jwtCache' = o.cache
    /\ fetches' = IF o.fetched THEN Append(fetches, now) ELSE fetches
    /\ resp' = [op |-> "middleware", status |-> o.status,
                nextCalled |-> o.nextCalled, xUserID |-> o.xUserID,
                queried |-> o.queried, request |-> request]
    /\ UNCHANGED <<users, orgs, projects, now, idp, reqs>>

\* The requests sent: no Authorization header, another scheme, an empty
\* token, a malformed one, and tokens without kid, with a kid the endpoint
\* does not serve, signed by another key, expired, without sub and with an
\* empty sub, for a subject with no row, and for the subject of a row.
ClientHeaders == {NoHeader, 2}

Tokens ==
    {Token("empty", Nil, "", FALSE, Nil),
     Token("malformed", Nil, "", FALSE, Nil),
     Token("jws", Nil, "k1", FALSE, Ptr("user_1")),
     Token("jws", Ptr("k9"), "k9", FALSE, Ptr("user_1")),
     Token("jws", Ptr("k1"), "k9", FALSE, Ptr("user_1")),
     Token("jws", Ptr("k1"), "k1", TRUE, Ptr("user_1")),
     Token("jws", Ptr("k1"), "k1", FALSE, Nil),
     Token("jws", Ptr("k1"), "k1", FALSE, Ptr("")),
     Token("jws", Ptr("k1"), "k1", FALSE, Ptr("user_2")),
     Token("jws", Ptr("k1"), "k1", FALSE, Ptr("user_1"))}

Requests ==
    {Request("Bearer ", tk, x) : tk \in Tokens, x \in ClientHeaders}
    \cup {Request(s, Token("jws", Ptr("k1"), "k1", FALSE, Ptr("user_1")), x) :
             s \in {"", "Basic "}, x \in ClientHeaders}

(***************************************************************************)
(* The writes of a project, in the steps requests served at the same time  *)
(* can interleave at: the service reads the store and draws the key, then  *)
(* the repository writes the row.  The store accepts a write when its      *)
(* constraints hold on the rows committed by then.                         *)
(***************************************************************************)
\* A write in flight: where it stands, the operation, the organization row
\* (of an onboarding), the project row to write and its id (0 before the
\* row exists), the status answered and the detail of an error response
\* (err.Error() of the service error).  A request that is done keeps the
\* row only when the store refused to write it.
ProjectWrite(pc, op, org, row, id, status, detail) ==
    [pc |-> pc, op |-> op, org |-> org, row |-> row, id |-> id,
     status |-> status, detail |-> detail]

NoRow == ProjectRow(NilUUID, EmptyString, GenFailed)

\* Handler.Create up to generateUniqueAPIKey.
Project_Create_Check(p, hv, orgID, name) ==
    \E key \in generateUniqueAPIKey(projects) :
    LET v == validateOrganizationOwnership(hv, orgID)
        refused ==
            \/ validateCreateProject(orgID, name) # NoError
            \/ NameExistsForOrganization(projects, name, orgID)
    IN  /\ CanStart(p)
        /\ reqs' = [reqs EXCEPT ![p] =
               IF v # StatusOK
               THEN ProjectWrite("done", "create", Nil, NoRow, NilUUID, v,
                                 "")
               ELSE IF refused
               THEN ProjectWrite("done", "create", Nil, NoRow, NilUUID,
                                 StatusBadRequest, "refused")
               ELSE IF key = GenFailed
               THEN ProjectWrite("done", "create", Nil, NoRow, NilUUID,
                                 StatusBadRequest, "failed to generate API key")
               ELSE ProjectWrite("write", "create", Nil,
                                 ProjectRow(orgID, TrimSpace(name), key),
                                 NilUUID, 0, "")]
        /\ UNCHANGED <<users, orgs, projects, resp, now, jwtCache, idp, fetches>>

\* projectRepo.Create(project)
Project_Create_Write(p) ==
    LET accepted == ProjectInsertAccepted(projects, orgs, reqs[p].row) IN
    /\ reqs[p].pc = "write"
    /\ reqs[p].op = "create"
    /\ accepted => Len(projects) < MaxProjects
    /\ projects' = IF accepted THEN Append(projects, reqs[p].row) ELSE projects
    /\ reqs' = [reqs EXCEPT ![p] =
           IF accepted
           THEN ProjectWrite("done", "create", Nil, NoRow, NilUUID,
                             StatusCreated, "")
           ELSE ProjectWrite("done", "create", Nil, reqs[p].row, NilUUID,
                             StatusBadRequest, "failed to create project")]
    /\ UNCHANGED <<users, orgs, resp, now, jwtCache, idp, fetches>>

\* Handler.RegenerateAPIKey up to generateUniqueAPIKey: the row read is
\* kept, with the key drawn.
Project_RegenerateAPIKey_Check(p, hv, projectID) ==
    \E key \in generateUniqueAPIKey(projects) :
    LET v == validateProjectOwnership(hv, projectID) IN
    /\ CanStart(p)
    /\ reqs' = [reqs EXCEPT ![p] =
           IF v # StatusOK
           THEN ProjectWrite("done", "regenerate", Nil, NoRow, NilUUID, v,
                             "")
           ELSE IF key = GenFailed
           THEN ProjectWrite("done", "regenerate", Nil, NoRow, NilUUID,
                             StatusBadRequest, "failed to generate new API key")
           ELSE ProjectWrite("write", "regenerate", Nil,
                             [projects[projectID] EXCEPT !.apiKey = key,
                                                         !.updatedAt = now],
                             projectID, 0, "")]
    /\ UNCHANGED <<users, orgs, projects, resp, now, jwtCache, idp, fetches>>

\* projectRepo.Update(project): db.Save writes every column of the row
\* read, and inserts it again when the UPDATE matched no live row.
Project_RegenerateAPIKey_Write(p) ==
    LET accepted == APIKeyUniqueAmongRows(projects, reqs[p].id,
                                          reqs[p].row.apiKey) IN
    /\ reqs[p].pc = "write"
    /\ reqs[p].op = "regenerate"
    /\ projects' = IF accepted
                   THEN [projects EXCEPT ![reqs[p].id] = reqs[p].row]
                   ELSE projects
    /\ reqs' = [reqs EXCEPT ![p] =
           IF accepted
           THEN ProjectWrite("done", "regenerate", Nil, NoRow, NilUUID,
                             StatusOK, "")
           ELSE ProjectWrite("done", "regenerate", Nil, reqs[p].row, NilUUID,
                             StatusBadRequest, "failed to update project")]
    /\ UNCHANGED <<users, orgs, resp, now, jwtCache, idp, fetches>>

\* CompleteOnboarding up to the insert of the project, inside its
\* transaction: other requests do not see its rows before the commit.
Onboarding_Check(p, hv, organizationName, projectName) ==
    \E key \in generateUniqueAPIKey(projects) :
    LET refused ==
            \/ validateCreateOrganization(organizationName) # NoError
            \/ NameExistsForOwner(orgs, organizationName, hv)
            \/ validateCreateProject(Len(orgs) + 1, projectName) # NoError
    IN  /\ CanStart(p)
        /\ reqs' = [reqs EXCEPT ![p] =
               IF refused
               THEN ProjectWrite("done", "onboarding", Nil, NoRow, NilUUID,
                                 StatusBadRequest, "refused")
               ELSE IF key = GenFailed
               THEN ProjectWrite("done", "onboarding", Nil, NoRow, NilUUID,
                                 StatusBadRequest, "failed to generate API key")
               ELSE ProjectWrite("write", "onboarding",
                                 Ptr(OrgRow(TrimSpace(organizationName), hv)),
                                 ProjectRow(NilUUID, TrimSpace(projectName), key),
                                 NilUUID, 0, "")]
        /\ UNCHANGED <<users, orgs, projects, resp, now, jwtCache, idp, fetches>>

\* The two inserts and tx.Commit(): the project row refers to the
\* organization row of the same transaction.
Onboarding_Commit(p) ==
    LET row == [reqs[p].row EXCEPT !.org = Len(orgs) + 1]
        accepted ==
            /\ OrgInsertAccepted(users, reqs[p].org[1])
            /\ APIKeyUniqueAmongRows(projects, 0, row.apiKey)
    IN  /\ reqs[p].pc = "write"
        /\ reqs[p].op = "onboarding"
        /\ accepted => Len(orgs) < MaxOrgs /\ Len(projects) < MaxProjects
        /\ orgs' = IF accepted THEN Append(orgs, reqs[p].org[1]) ELSE orgs
        /\ projects' = IF accepted THEN Append(projects, row) ELSE projects
        /\ reqs' = [reqs EXCEPT ![p] =
               IF accepted
               THEN ProjectWrite("done", "onboarding", Nil, NoRow, NilUUID,
                                 StatusCreated, "")
               ELSE ProjectWrite("done", "onboarding", Nil, row, NilUUID,
                                 StatusBadRequest, "failed to create project")]
        /\ UNCHANGED <<users, resp, now, jwtCache, idp, fetches>>

\* Handler.Delete for a project of the caller, served in one step between
\* the steps of the writes; its response is not kept.
Project_Delete_Write(hv, projectID) ==
    /\ validateProjectOwnership(hv, projectID) = StatusOK
    /\ projects' = DeleteProject(projects, projectID,
                                 projects[projectID].org).projects
    /\ UNCHANGED <<users, orgs, resp, now, jwtCache, idp, fetches, reqs>>

(***************************************************************************)
(* jwtCache.mu.  getPublicKeyFromJWKS and getCachedInternalUserID in the   *)
(* steps the mutex orders: RLock, the read and RUnlock, the return of a    *)
(* value copied out, the GET or the query, Lock, the write and Unlock.     *)
(***************************************************************************)
\* A call in flight: the function, where it stands, the lock it holds (""
\* for none, "r" shared, "w" exclusive), its argument, the instant of its
\* GET or query, the key ids and the id it copied out or fetched, and what
\* it returned.
LockedCall(fn, pc, held, arg, at, keys, id, result) ==
    [fn |-> fn, pc |-> pc, held |-> held, arg |-> arg, at |-> at,
     keys |-> keys, id |-> id, result |-> result]

\* jwtCache.mu.RLock(): granted while no goroutine holds the exclusive lock.
mu_RLock(p, fn, arg) ==
    /\ CanStart(p)
    /\ \A q \in Callers : reqs[q].held # "w"
    /\ reqs' = [reqs EXCEPT ![p] =
                   LockedCall(fn, "rlocked", "r", arg, 0, {}, NilUUID, "")]
    /\ UNCHANGED <<users, orgs, projects, resp, now, jwtCache, idp, fetches>>

\* An RUnlock on the path of a hit only: a miss goes on under the lock.
mu_RUnlockOnHitOnly(p) ==
    LET c == reqs[p]
        hit == IF c.fn = "jwks" THEN JWKSFresh(jwtCache, now)
               ELSE UserIDCached(jwtCache, c.arg, now)
    IN  /\ c.pc = "rlocked"
        /\ reqs' = [reqs EXCEPT ![p] =
               IF ~hit THEN [c EXCEPT !.pc = "outbound"]
               ELSE IF c.fn = "jwks"
               THEN [c EXCEPT !.pc = "use", !.held = "",
                              !.keys = jwtCache.jwks[1]]
               ELSE [c EXCEPT !.pc = "use", !.held = "",
                              !.id = jwtCache.userIDCache[c.arg]]]
        /\ UNCHANGED <<users, orgs, projects, resp, now, jwtCache, idp,
                       fetches>>

\* The read under the shared lock, then jwtCache.mu.RUnlock(): a hit takes
\* the cached value with it.
mu_RUnlock(p) ==
    LET c == reqs[p]
        hit == IF c.fn = "jwks" THEN JWKSFresh(jwtCache, now)
               ELSE UserIDCached(jwtCache, c.arg, now)
    IN  /\ c.pc = "rlocked"
        /\ reqs' = [reqs EXCEPT ![p] =
               IF ~hit THEN [c EXCEPT !.pc = "outbound", !.held = ""]
               ELSE IF c.fn = "jwks"
               THEN [c EXCEPT !.pc = "use", !.held = "",
                              !.keys = jwtCache.jwks[1]]
               ELSE [c EXCEPT !.pc = "use", !.held = "",
                              !.id = jwtCache.userIDCache[c.arg]]]
        /\ UNCHANGED <<users, orgs, projects, resp, now, jwtCache, idp,
                       fetches>>

\* return findKeyInJWKS(cachedJWKS, kid) / return internalID, nil
ReturnCached(p) ==
    LET c == reqs[p] IN
    /\ c.pc = "use"
    /\ reqs' = [reqs EXCEPT ![p] =
           [c EXCEPT !.pc = "done",
                     !.result = IF c.fn = "jwks"
                                THEN findKeyInJWKS(c.keys, c.arg) ELSE "id"]]
    /\ UNCHANGED <<users, orgs, projects, resp, now, jwtCache, idp, fetches>>

\* A query that writes userIDTime of the subject when it finds no user.
OutboundRecordingAbsence(p) ==
    LET c == reqs[p]
        id == GetByClerkUserID(users, c.arg)
    IN  /\ c.pc = "outbound"
        /\ c.fn = "jwks" => CanFetch
        /\ fetches' = IF c.fn = "jwks" THEN Append(fetches, now) ELSE fetches
        /\ jwtCache' = IF c.fn = "user" /\ id = NilUUID
                       THEN [jwtCache EXCEPT !.userIDTime[c.arg] = now + 1]
                       ELSE jwtCache
        /\ reqs' = [reqs EXCEPT ![p] =
               IF c.fn = "jwks"
               THEN IF idp.up
                    THEN [c EXCEPT !.pc = "lock", !.at = now,
                                   !.keys = idp.keys]
                    ELSE [c EXCEPT !.pc = "done",
                                   !.result = "failed to fetch JWKS"]
               ELSE IF id = NilUUID
                    THEN [c EXCEPT !.pc = "done", !.result = "user not found"]
                    ELSE [c EXCEPT !.pc = "lock", !.at = now, !.id = id]]
        /\ UNCHANGED <<users, orgs, projects, resp, now, idp>>

\* client.Get(jwksURL) and the decoding of its body, or
\* userRepo.GetByClerkUserID(clerkUserID).
Outbound(p) ==
    LET c == reqs[p]
        id == GetByClerkUserID(users, c.arg)
    IN  /\ c.pc = "outbound"
        /\ c.fn = "jwks" => CanFetch
        /\ fetches' = IF c.fn = "jwks" THEN Append(fetches, now) ELSE fetches
        /\ reqs' = [reqs EXCEPT ![p] =
               IF c.fn = "jwks"
               THEN IF idp.up
                    THEN [c EXCEPT !.pc = "lock", !.at = now,
                                   !.keys = idp.keys]
                    ELSE [c EXCEPT !.pc = "done",
                                   !.result = "failed to fetch JWKS"]
               ELSE IF id = NilUUID
                    THEN [c EXCEPT !.pc = "done", !.result = "user not found"]
                    ELSE [c EXCEPT !.pc = "lock", !.at = now, !.id = id]]
        /\ UNCHANGED <<users, orgs, projects, resp, now, jwtCache, idp>>

\* jwtCache.mu.Lock(): granted while no goroutine holds either lock.
mu_Lock(p) ==
    /\ reqs[p].pc = "lock"
    /\ \A q \in Callers : reqs[q].held = ""
    /\ reqs' = [reqs EXCEPT ![p].pc = "wlocked", ![p].held = "w"]
    /\ UNCHANGED <<users, orgs, projects, resp, now, jwtCache, idp, fetches>>

\* The write under the exclusive lock, jwtCache.mu.Unlock() and the return.
mu_Unlock(p) ==
    LET c == reqs[p] IN
    /\ c.pc = "wlocked"
    /\ jwtCache' = IF c.fn = "jwks"
                   THEN [jwtCache EXCEPT !.jwks = Ptr(c.keys),
                                         !.jwksTime = now]
                   ELSE [jwtCache EXCEPT !.userIDCache[c.arg] = c.id,
                                         !.userIDTime[c.arg] = now]
    /\ reqs' = [reqs EXCEPT ![p] =
           [c EXCEPT !.pc = "done", !.held = "",
                     !.result = IF c.fn = "jwks"
                                THEN findKeyInJWKS(c.keys, c.arg) ELSE "id"]]
    /\ UNCHANGED <<users, orgs, projects, resp, now, idp, fetches>>

(***************************************************************************)
(* handleUserCreated for deliveries served at the same time: CreateUser    *)
(* reads the store, then the repository inserts the row.                   *)
(***************************************************************************)
\* A delivery in flight: where it stands, the row CreateUser built, and the
\* status and message answered.
UserWrite(pc, row, status, message) ==
    [pc |-> pc, row |-> row, status |-> status, message |-> message]

\* handleUserCreated up to the existence check of CreateUser.
handleUserCreated_Check(p, clerkUser) ==
    LET req == clerkUserToCreateRequest(clerkUser)
        row == UserRow(req.clerkUserID, req.email, TrimSpace(req.fullName),
                       req.username, req.imageURL, now)
    IN  /\ CanStart(p)
        /\ reqs' = [reqs EXCEPT ![p] =
               IF ~parseClerkUserData(clerkUser)
               THEN UserWrite("done", row, StatusBadRequest,
                              "Failed to parse user data")
               ELSE IF validateCreateUser(req) # NoError
               THEN UserWrite("done", row, StatusInternalServerError,
                              "Failed to create user")
               ELSE IF ClerkUserIDExists(users, req.clerkUserID)
               THEN UserWrite("done", row, StatusOK, "User already exists")
               ELSE UserWrite("insert", row, 0, "")]
        /\ UNCHANGED <<users, orgs, projects, resp, now, jwtCache, idp,
                       fetches>>

\* userRepo.Create(user) and the answer of the handler.
handleUserCreated_Insert(p) ==
    LET accepted == UserIndexesAccept(users, 0, reqs[p].row) IN
    /\ reqs[p].pc = "insert"
    /\ users' = IF accepted THEN Append(users, reqs[p].row) ELSE users
    /\ reqs' = [reqs EXCEPT ![p] =
           IF accepted
           THEN UserWrite("done", reqs[p].row, StatusOK,
                          "User created successfully")
           ELSE UserWrite("done", reqs[p].row, StatusInternalServerError,
                          "Failed to create user")]
    /\ UNCHANGED <<orgs, projects, resp, now, jwtCache, idp, fetches>>

(***************************************************************************)
(* Specifications.  Each starts from a state of the deployed program and   *)
(* follows the part of it named.                                           *)
(***************************************************************************)
\* The row a verified user.created leaves for the subject.
SyncedUser(clerkUserID, email) ==
    UserRow(clerkUserID, email, Str(0, "Al"), Nil, "", 0)

MiddlewareIdle ==
    /\ now = 0
    /\ jwtCache = EmptyJWTCache
    /\ idp = IdP(TRUE, {"k1"})
    /\ fetches = <<>>
    /\ reqs = <<>>

\* The API over a store that holds two synchronised users.
InitAPI ==
    /\ users = <<SyncedUser("user_1", Email("al", "b.co")),
                 SyncedUser("user_2", Email("cy", "d.co"))>>
    /\ orgs = <<>>
    /\ projects = <<>>
    /\ resp = NoResponse
    /\ MiddlewareIdle

\* The routes of the organization handler.
NextOrganization == OrganizationRequests

SpecOrganization == InitAPI /\ [][NextOrganization]_vars

\* The onboarding route, with the faults a transaction can meet; the
\* organization handler deletes what onboarding created.
NextOnboarding ==
    \/ OnboardingRequests
    \/ \E hv \in Principals, id \in OrgIDs :
           /\ Organization_Delete(hv, id)
           /\ UNCHANGED middlewareVars

SpecOnboarding == InitAPI /\ [][NextOnboarding]_vars

\* The routes of the two project handlers; onboardings that meet no fault
\* supply the organizations, and the organization handler deletes them.
NextProject ==
    \/ ProjectRequests
    \/ ProjectXOrgRequests
    \/ \E hv \in Principals :
           /\ Onboarding_CompleteOnboarding(hv, Str(0, "Acme"), Str(0, "Web"),
                                            "none")
           /\ UNCHANGED middlewareVars
    \/ \E hv \in Principals, id \in OrgIDs :
           /\ Organization_Delete(hv, id)
           /\ UNCHANGED middlewareVars

SpecProject == InitAPI /\ [][NextProject]_vars

\* The webhook route over an empty users table.
InitWebhook ==
    /\ users = <<>>
    /\ orgs = <<>>
    /\ projects = <<>>
    /\ resp = NoResponse
    /\ MiddlewareIdle

NextWebhook ==
    \/ \E event \in Events, verified \in BOOLEAN :
           HandleClerkWebhook(event, verified)
    \/ Tick(MaxWebhookClock)

SpecWebhook == InitWebhook /\ [][NextWebhook]_vars

\* NumCallers goroutines that call getPublicKeyFromJWKS.
InitJWKS ==
    /\ users = <<>>
    /\ orgs = <<>>
    /\ projects = <<>>
    /\ resp = NoResponse
    /\ now = 0
    /\ jwtCache = EmptyJWTCache
    /\ idp = IdP(TRUE, {"k1"})
    /\ fetches = <<>>
    /\ reqs = [p \in 1..NumCallers |-> KeyCall("idle", "", {}, "")]

NextJWKS ==
    \/ \E p \in Callers, kid \in {"k1", "k9"} :
           getPublicKeyFromJWKS_Check(p, kid)
    \/ \E p \in Callers : getPublicKeyFromJWKS_Fetch(p)
    \/ \E p \in Callers : getPublicKeyFromJWKS_Cache(p)
    \/ IdP_Outage
    \/ Tick(MaxJWKSClock)

SpecJWKS == InitJWKS /\ [][NextJWKS]_vars

\* NumLookups goroutines that call getCachedInternalUserID while the
\* webhook route deletes users.
InitIdentity ==
    /\ users = <<SyncedUser("user_1", Email("al", "b.co"))>>
    /\ orgs = <<>>
    /\ projects = <<>>
    /\ resp = NoResponse
    /\ now = 0
    /\ jwtCache = EmptyJWTCache
    /\ idp = IdP(TRUE, {"k1"})
    /\ fetches = <<>>
    /\ reqs = [p \in 1..NumLookups |-> Lookup("idle", "", 0, NilUUID, "")]

NextIdentity ==
    \/ \E p \in Callers, clerkUserID \in ClerkIDs :
           getCachedInternalUserID_Check(p, clerkUserID)
    \/ \E p \in Callers : getCachedInternalUserID_Query(p)
    \/ \E p \in Callers : getCachedInternalUserID_Store(p)
    \/ \E event \in DeletionEvents : HandleClerkWebhook(event, TRUE)
    \/ Tick(MaxIdentityClock)

SpecIdentity == InitIdentity /\ [][NextIdentity]_vars

\* The middleware in front of a route, one request at a time, while the
\* webhook route deletes users and the JWKS endpoint goes down and up.
InitAuth ==
    /\ users = <<SyncedUser("user_1", Email("al", "b.co"))>>
    /\ orgs = <<>>
    /\ projects = <<>>
    /\ resp = NoResponse
    /\ MiddlewareIdle

NextAuth ==
    \/ \E request \in Requests : Middleware_ServeHTTP(request)
    \/ \E event \in DeletionEvents : HandleClerkWebhook(event, TRUE)
    \/ IdP_Outage
    \/ Tick(MaxAuthClock)

SpecAuth == InitAuth /\ [][NextAuth]_vars

\* NumWriters requests that write projects at the same time, and deletes.
InitWrites ==
    /\ users = <<SyncedUser("user_1", Email("al", "b.co"))>>
    /\ orgs = <<>>
    /\ projects = <<>>
    /\ resp = NoResponse
    /\ now = 0
    /\ jwtCache = EmptyJWTCache
    /\ idp = IdP(TRUE, {"k1"})
    /\ fetches = <<>>
    /\ reqs = [p \in 1..NumWriters |->
                  ProjectWrite("idle", "", Nil, NoRow, NilUUID, 0, "")]

NextWrites ==
    \/ \E p \in Callers, hv \in Principals, orgID \in OrgIDs,
          name \in ProjectNameInputs :
           Project_Create_Check(p, hv, orgID, name)
    \/ \E p \in Callers : Project_Create_Write(p)
    \/ \E p \in Callers, hv \in Principals, id \in ProjectIDs :
           Project_RegenerateAPIKey_Check(p, hv, id)
    \/ \E p \in Callers : Project_RegenerateAPIKey_Write(p)
    \/ \E p \in Callers, hv \in Principals :
           Onboarding_Check(p, hv, Str(0, "Acme"), Str(0, "Web"))
    \/ \E p \in Callers : Onboarding_Commit(p)
    \/ \E hv \in Principals, id \in ProjectIDs :
           Project_Delete_Write(hv, id)

SpecWrites == InitWrites /\ [][NextWrites]_vars

\* The requests that store a name, with names of one character, of one
\* character behind a space, and of three characters.
NameInputs == {Str(0, "A"), Str(1, "A"), Str(0, "Web")}

NextNames ==
    \/ \E hv \in Principals, organizationName \in NameInputs,
          projectName \in NameInputs :
           /\ Onboarding_CompleteOnboarding(hv, organizationName, projectName,
                                            "none")
           /\ UNCHANGED middlewareVars
    \/ \E hv \in Principals, name \in NameInputs :
           /\ Organization_Create(hv, name)
           /\ UNCHANGED middlewareVars
    \/ \E hv \in Principals, id \in OrgIDs, name \in NameInputs :
           /\ Organization_Update(hv, id, Ptr(name))
           /\ UNCHANGED middlewareVars
    \/ \E hv \in Principals, orgID \in OrgIDs, name \in NameInputs :
           /\ Project_Create(hv, orgID, name)
           /\ UNCHANGED middlewareVars
    \/ \E hv \in Principals, id \in ProjectIDs, name \in NameInputs :
           /\ Project_Update(hv, id, Ptr(name))
           /\ UNCHANGED middlewareVars

SpecNames == InitAPI /\ [][NextNames]_vars

\* user.deleted deliveries over a store in which the users own
\* organizations and projects.
NextDeletion ==
    \/ \E event \in DeletionEvents, verified \in BOOLEAN :
           HandleClerkWebhook(event, verified)
    \/ \E hv \in Principals, organizationName \in OrgNameInputs :
           /\ Onboarding_CompleteOnboarding(hv, organizationName,
                                            Str(0, "Web"), "none")
           /\ UNCHANGED middlewareVars
    \/ Tick(MaxWebhookClock)

SpecDeletion == InitAPI /\ [][NextDeletion]_vars

\* Verified user.updated deliveries for two synchronised users, with
\* payloads that carry both names, one name or none, a username or none,
\* the address of the first user and an image URL or none.
NextUpdate ==
    \/ \E id \in ClerkIDs, u \in Usernames, n \in Names \cup {<<Nil, Nil>>},
          imageURL \in {"", "u.png"} :
           HandleClerkWebhook(
               Event("user.updated",
                     [ClerkUser(id, Email("al", "b.co"), n[1], n[2], u)
                         EXCEPT !.imageURL = imageURL]),
               TRUE)
    \/ Tick(MaxWebhookClock)

SpecUpdate == InitAPI /\ [][NextUpdate]_vars

\* Regenerations of the keys of projects created by onboarding, some of
\* them deleted, at different instants.
NextRegenerate ==
    \/ \E hv \in Principals :
           /\ Onboarding_CompleteOnboarding(hv, Str(0, "Acme"), Str(0, "Web"),
                                            "none")
           /\ UNCHANGED middlewareVars
    \/ \E hv \in Principals, id \in ProjectIDs :
           /\ Project_RegenerateAPIKey(hv, id)
           /\ UNCHANGED middlewareVars
    \/ \E hv \in Principals, id \in ProjectIDs :
           /\ Project_Delete(hv, id)
           /\ UNCHANGED middlewareVars
    \/ Tick(MaxWebhookClock)

SpecRegenerate == InitAPI /\ [][NextRegenerate]_vars

\* The middleware, one request at a time, in front of an endpoint that
\* rotates its keys, until past the age at which a snapshot is stale.
NextRotation ==
    \/ \E kid \in {"k1", "k2"} :
           Middleware_ServeHTTP(
               Request("Bearer ",
                       Token("jws", Ptr(kid), kid, FALSE, Ptr("user_1")),
                       NoHeader))
    \/ \E keys \in {{"k1"}, {"k2"}} : IdP_Rotate(keys)
    \/ Tick(MaxJWKSClock + 1)

SpecRotation == InitAuth /\ [][NextRotation]_vars

\* NumLookups goroutines that call getPublicKeyFromJWKS and
\* getCachedInternalUserID while the endpoint rotates its keys once and the
\* webhook route creates the second user.
InitLocks ==
    /\ users = <<SyncedUser("user_1", Email("al", "b.co"))>>
    /\ orgs = <<>>
    /\ projects = <<>>
    /\ resp = NoResponse
    /\ now = 0
    /\ jwtCache = EmptyJWTCache
    /\ idp = IdP(TRUE, {"k1"})
    /\ fetches = <<>>
    /\ reqs = [p \in 1..NumLookups |->
                  LockedCall("", "idle", "", "", 0, {}, NilUUID, "")]

NextLocks ==
    \/ \E p \in Callers,
          call \in {<<"jwks", "k1">>, <<"jwks", "k2">>,
                    <<"user", "user_1">>, <<"user", "user_2">>} :
           mu_RLock(p, call[1], call[2])
    \/ \E p \in Callers : mu_RUnlock(p)
    \/ \E p \in Callers : ReturnCached(p)
    \/ \E p \in Callers : Outbound(p)
    \/ \E p \in Callers : mu_Lock(p)
    \/ \E p \in Callers : mu_Unlock(p)
    \/ IdP_Rotate({"k2"})
    \/ HandleClerkWebhook(
           Event("user.created",
                 ClerkUser("user_2", Email("cy", "d.co"), Ptr(Str(0, "A")),
                           Ptr(Str(0, "B")), Nil)),
           TRUE)
    \/ Tick(MaxAuthClock)

SpecLocks == InitLocks /\ [][NextLocks]_vars

\* NumWriters deliveries of user.created served at the same time.
NextDeliveries ==
    \/ \E p \in Callers, id \in ClerkIDs, e \in Emails, u \in Usernames :
           handleUserCreated_Check(
               p, ClerkUser(id, e, Ptr(Str(0, "A")), Ptr(Str(0, "B")), u))
    \/ \E p \in Callers : handleUserCreated_Insert(p)

SpecDeliveries == InitWrites /\ [][NextDeliveries]_vars

(***************************************************************************)
(* Properties of the API.                                                  *)
(***************************************************************************)
Succeeded == resp.status \in {StatusOK, StatusCreated}

\* C1: a request that modifies an organization (update, delete, create a
\* project in it) succeeds only if the principal owns the organization, and
\* a request that modifies a project (update, delete, regenerate its key)
\* succeeds only if the principal owns the project's organization.
C1_OwnershipInvariant ==
    Succeeded =>
        /\ resp.op \in {"organization.update", "organization.delete",
                        "project.create"}
               => orgs[resp.org].owner = resp.uid
        /\ resp.op \in {"project.update", "project.delete",
                        "project.regenerate"}
               => orgs[projects[resp.proj].org].owner = resp.uid

\* C2: GET of a project id that names no live project, and GET of a live
\* project in a live organization another user owns, both answer 404.
C2_ForeignProjectIsNotFound ==
    resp.op = "project.get" =>
        LET p == resp.proj IN
        (\/ ~ProjectGetByID(projects, p)
         \/ /\ OrgGetByID(orgs, projects[p].org)
            /\ orgs[projects[p].org].owner # resp.uid)
            => resp.status = StatusNotFound

\* C3: GET of an organization returns it only to its owner.
C3_OrganizationReadOwnerScoped ==
    (resp.op = "organization.get" /\ resp.status = StatusOK)
        => orgs[resp.org].owner = resp.uid

\* C4: an onboarding request that does not end in 201 answers with an error
\* status and commits no row, and an onboarding request that repeats the
\* organization name of the same principal's successful onboarding just
\* before it commits no row.
C4_OnboardingAtomicity ==
    [][resp'.op = "onboarding" =>
        /\ resp'.status # StatusCreated =>
               /\ resp'.status >= StatusBadRequest
               /\ orgs' = orgs
               /\ projects' = projects
        /\ (/\ resp.op = "onboarding"
            /\ resp.status = StatusCreated
            /\ resp'.uid = resp.uid
            /\ resp'.name = resp.name) =>
               /\ orgs' = orgs
               /\ projects' = projects]_vars

\* C5: an onboarding request that ends in 201 appends exactly one
\* organization, owned by the principal, and exactly one project, in that
\* organization, with a key no earlier project row holds, and its body
\* carries those two records.
C5_OnboardingPostcondition ==
    [][(resp'.op = "onboarding" /\ resp'.status = StatusCreated) =>
        /\ orgs' = Append(orgs, orgs'[Len(orgs')])
        /\ orgs'[Len(orgs')].owner = resp'.uid
        /\ ~orgs'[Len(orgs')].deleted
        /\ projects' = Append(projects, projects'[Len(projects')])
        /\ projects'[Len(projects')].org = Len(orgs')
        /\ ~projects'[Len(projects')].deleted
        /\ projects'[Len(projects')].apiKey \in Keys
        /\ \A i \in 1..Len(projects) :
               projects[i].apiKey # projects'[Len(projects')].apiKey
        /\ resp'.org = Len(orgs')
        /\ resp'.proj = Len(projects')
        /\ resp'.body =
               <<[id |-> Len(orgs'),
                  name |-> orgs'[Len(orgs')].name,
                  owner |-> orgs'[Len(orgs')].owner],
                 [id |-> Len(projects'),
                  org |-> projects'[Len(projects')].org,
                  name |-> projects'[Len(projects')].name,
                  apiKey |-> projects'[Len(projects')].apiKey]>>]_vars

\* A second successful onboarding, with rows of the first in the store.
C5_Witness ==
    /\ resp.op = "onboarding"
    /\ resp.status = StatusCreated
    /\ Len(orgs) = 2
    /\ Len(projects) = 2

(***************************************************************************)
(* Properties of the webhook route.                                        *)
(***************************************************************************)
SameUpToUpdatedAt(a, b) ==
    /\ Len(a) = Len(b)
    /\ \A i \in 1..Len(a) :
           [a[i] EXCEPT !.updatedAt = 0] = [b[i] EXCEPT !.updatedAt = 0]

\* A verified delivery of the event the last verified delivery carried.
Redelivery ==
    /\ resp.op = "webhook"
    /\ resp'.op = "webhook"
    /\ resp.status # StatusUnauthorized
    /\ resp'.status # StatusUnauthorized
    /\ resp'.event = resp.event

C7_AtMostTwoFetchesPerWindow ==
    \A i, k \in 1..Len(fetches) :
        k >= i + 2 => fetches[k] - fetches[i] >= JWKSTTL

\* The subject's row was soft-deleted more than userCacheTTL before `at'.
DeletedLongBefore(clerkUserID, at) ==
    \E i \in 1..Len(users) :
        /\ users[i].clerkUserID = clerkUserID
        /\ users[i].deleted
        /\ at > users[i].deletedAt + userCacheTTL

\* C8: a lookup made more than ten minutes after the subject's row was
\* soft-deleted returns "user not found".
C8_LateLookupFails ==
    \A p \in Callers :
        (reqs[p].pc = "done" /\ DeletedLongBefore(reqs[p].clerkUserID, reqs[p].at))
            => reqs[p].result = "user not found"

\* The requests C9 names: no Authorization header, another scheme, an empty
\* or malformed token, no kid or one the endpoint does not serve, a
\* signature by another key, an expired token, a missing or empty sub.
Refused(request) ==
    \/ request.scheme # "Bearer "
    \/ request.token.form # "jws"
    \/ request.token.kid = Nil
    \/ request.token.kid[1] \notin idp.keys
    \/ request.token.signer # request.token.kid[1]
    \/ request.token.expired
    \/ request.token.sub = Nil
    \/ request.token.sub[1] = ""

\* C9: a request of one of these kinds is answered 401; next is not
\* called, X-User-ID stays as the client sent it, userIDCache and
\* userIDTime are not written and the users table is not queried.
C9_RejectionHasNoSideEffect ==
    [][(resp'.op = "middleware" /\ Refused(resp'.request)) =>
          /\ resp'.status = StatusUnauthorized
          /\ ~resp'.nextCalled
          /\ resp'.xUserID = resp'.request.xUserID
          /\ ~resp'.queried
          /\ jwtCache'.userIDCache = jwtCache.userIDCache
          /\ jwtCache'.userIDTime = jwtCache.userIDTime
          /\ users' = users]_vars

C9_Witness ==
    /\ resp.op = "middleware"
    /\ resp.request.scheme = "Bearer "
    /\ resp.request.token.expired
    /\ resp.request.xUserID = NoHeader
    /\ resp.status = StatusUnauthorized
    /\ jwtCache.userIDCache["user_1"] # NilUUID

C11_APIKeyUnique ==
    \A i, j \in 1..Len(projects) :
        (i # j /\ ~projects[i].deleted /\ ~projects[j].deleted)
            => projects[i].apiKey # projects[j].apiKey

\* Two writers drew the same key from the same store; one of them wrote it
\* into a row that is live, and the store refused the other.
C11_Witness ==
    \E q \in Callers, i \in 1..Len(projects) :
        /\ reqs[q].pc = "done"
        /\ reqs[q].status = StatusBadRequest
        /\ reqs[q].row # NoRow
        /\ ~projects[i].deleted
        /\ projects[i].apiKey = reqs[q].row.apiKey

\* C12: a request whose key generation gave up after APIKeyMaxAttempts
\* candidates is answered with a 5xx status.
C12_ExhaustionIsServerError ==
    \A p \in Callers :
        (/\ reqs[p].pc = "done"
         /\ reqs[p].detail \in {"failed to generate API key",
                                "failed to generate new API key"})
            => reqs[p].status >= StatusInternalServerError

\* C13: no two organizations that are not soft-deleted have the same name
\* and the same owner, names that differ in surrounding whitespace only
\* being requested included.
C13_OrganizationNameUnique ==
    \A i, j \in 1..Len(orgs) :
        (i # j /\ ~orgs[i].deleted /\ ~orgs[j].deleted
               /\ orgs[i].owner = orgs[j].owner)
            => orgs[i].name # orgs[j].name

\* C14: no two projects that are not soft-deleted have the same name and
\* the same organization.
C14_ProjectNameUnique ==
    \A i, j \in 1..Len(projects) :
        (i # j /\ ~projects[i].deleted /\ ~projects[j].deleted
               /\ projects[i].org = projects[j].org)
            => projects[i].name # projects[j].name

\* C15: the name of every stored organization and of every stored project
\* is non-empty after trimming and is MinOrganizationNameLength to
\* MaxOrganizationNameLength (MinProjectNameLength to MaxProjectNameLength)
\* characters long.
C15_StoredNamesWellFormed ==
    /\ \A i \in 1..Len(orgs) :
           /\ TrimSpace(orgs[i].name) # EmptyString
           /\ len(orgs[i].name) >= MinOrganizationNameLength
           /\ len(orgs[i].name) <= MaxOrganizationNameLength
    /\ \A i \in 1..Len(projects) :
           /\ TrimSpace(projects[i].name) # EmptyString
           /\ len(projects[i].name) >= MinProjectNameLength
           /\ len(projects[i].name) <= MaxProjectNameLength

\* C16: an update or a delete of an organization by a caller with a valid
\* X-User-ID answers 404 when no live organization has the id, and 403
\* when a live one has it and another user owns it; the organizations are
\* left as they were in both cases.
C16_UpdateDeleteNotFoundForbidden ==
    [][(/\ resp'.op \in {"organization.update", "organization.delete"}
        /\ ExtractUserID(resp'.uid) = StatusOK)
           => /\ ~OrgGetByID(orgs, resp'.org)
                  => (resp'.status = StatusNotFound /\ orgs' = orgs)
              /\ (OrgGetByID(orgs, resp'.org)
                     /\ orgs[resp'.org].owner # resp'.uid)
                  => (resp'.status = StatusForbidden /\ orgs' = orgs)]_vars

(***************************************************************************)
(* Properties of the webhook deliveries.                                   *)
(***************************************************************************)
\* A step that serves a webhook request: it leaves its response, and the
\* clock does not advance within it.
Delivery == resp'.op = "webhook" /\ now' = now

\* C17: a delivery whose svix headers do not verify is answered 401
\* "Invalid webhook signature" and leaves the users table as it was.
C17_UnverifiedDeliveryRefused ==
    [][(Delivery /\ ~resp'.verified)
           => /\ resp'.status = StatusUnauthorized
              /\ resp'.message = "Invalid webhook signature"
              /\ users' = users]_vars

\* An unverified user.deleted for a subject that has a live row was
\* refused, and the row is live.
C17_Witness ==
    /\ resp.op = "webhook"
    /\ ~resp.verified
    /\ resp.event.type = "user.deleted"
    /\ resp.status = StatusUnauthorized
    /\ \E i \in 1..Len(users) :
           /\ users[i].clerkUserID = resp.event.data.id
           /\ ~users[i].deleted

\* A live row holds the Clerk id, the e-mail address or the username of
\* the request.
CollidesWithLiveUser(tbl, req) ==
    \E i \in 1..Len(tbl) :
        /\ ~tbl[i].deleted
        /\ \/ tbl[i].clerkUserID = req.clerkUserID
           \/ tbl[i].email = req.email
           \/ req.username # Nil /\ tbl[i].username = req.username

\* C18: a verified user.created whose request is valid and whose Clerk
\* id, e-mail address or username a live user already holds is answered
\* 200 "User already exists" and leaves the users table as it was.
C18_CollisionIsAlreadyExists ==
    [][(/\ Delivery
        /\ resp'.verified
        /\ resp'.event.type = "user.created"
        /\ parseClerkUserData(resp'.event.data)
        /\ validateCreateUser(clerkUserToCreateRequest(resp'.event.data))
               = NoError
        /\ CollidesWithLiveUser(users,
               clerkUserToCreateRequest(resp'.event.data)))
           => /\ resp'.status = StatusOK
              /\ resp'.message = "User already exists"
              /\ users' = users]_vars

\* C19: a verified user.deleted whose payload parses is answered 200 and
\* changes no organization and no project; when no live user has the
\* Clerk id it says "User already deleted or doesn't exist" and the users
\* table is as it was; otherwise the row of that user is marked deleted
\* and no other row and no other column of that row changes.
C19_DeletionFrame ==
    [][(/\ Delivery
        /\ resp'.verified
        /\ resp'.event.type = "user.deleted"
        /\ parseClerkUserData(resp'.event.data))
           => LET id == GetByClerkUserID(users, resp'.event.data.id) IN
              /\ resp'.status = StatusOK
              /\ orgs' = orgs
              /\ projects' = projects
              /\ id = NilUUID =>
                     /\ resp'.message = "User already deleted or doesn't exist"
                     /\ users' = users
              /\ id # NilUUID =>
                     /\ users[id].clerkUserID = resp'.event.data.id
                     /\ users'[id].deleted
                     /\ users' = [users EXCEPT
                                    ![id].deleted = TRUE,
                                    ![id].deletedAt = users'[id].deletedAt]]_vars

\* The user deleted owns an organization with a project, and the other
\* user is live.
C19_Witness ==
    /\ resp.op = "webhook"
    /\ resp.verified
    /\ resp.event.type = "user.deleted"
    /\ resp.message = "User deleted successfully"
    /\ \E i \in 1..Len(users) :
           /\ users[i].clerkUserID = resp.event.data.id
           /\ users[i].deleted
           /\ \E o \in 1..Len(orgs) : orgs[o].owner = i /\ ~orgs[o].deleted
           /\ \E p \in 1..Len(projects) :
                  orgs[projects[p].org].owner = i /\ ~projects[p].deleted
    /\ \E k \in 1..Len(users) : ~users[k].deleted

\* C20: a verified user.updated whose payload parses and whose Clerk id no
\* live user has is answered 404 "User not found"; no row is added and no
\* row is changed.
C20_UpdateOfAbsentUser ==
    [][(/\ Delivery
        /\ resp'.verified
        /\ resp'.event.type = "user.updated"
        /\ parseClerkUserData(resp'.event.data)
        /\ ~\E i \in 1..Len(users) :
               /\ users[i].clerkUserID = resp'.event.data.id
               /\ ~users[i].deleted)
           => /\ resp'.status = StatusNotFound
              /\ resp'.message = "User not found"
              /\ users' = users
              /\ orgs' = orgs
              /\ projects' = projects]_vars

\* The update was for a user whose row is soft-deleted, while another
\* user is live.
C20_Witness ==
    /\ resp.op = "webhook"
    /\ resp.verified
    /\ resp.event.type = "user.updated"
    /\ resp.status = StatusNotFound
    /\ \E i \in 1..Len(users) :
           users[i].clerkUserID = resp.event.data.id /\ users[i].deleted
    /\ \E k \in 1..Len(users) : ~users[k].deleted

C22_UnhandledTypeIsNoOp ==
    [][(/\ Delivery
        /\ resp'.verified
        /\ resp'.event.type \notin {"user.created", "user.updated",
                                    "user.deleted"})
           => /\ resp'.status = StatusOK
              /\ resp'.message = "Event type not handled"
              /\ users' = users
              /\ orgs' = orgs
              /\ projects' = projects]_vars

\* A session.created was delivered to a store that holds a live user.
C22_Witness ==
    /\ resp.op = "webhook"
    /\ resp.verified
    /\ resp.event.type = "session.created"
    /\ resp.status = StatusOK
    /\ \E i \in 1..Len(users) : ~users[i].deleted

\* The address a payload designates: the entry whose id is
\* primary_email_address_id, else the first entry, else the placeholder
\* test+{id}@clerk.dev, which is not verified.
DesignatedAddress(data) ==
    LET addrs == data.emailAddresses
        primary == {i \in 1..Len(addrs) :
                       /\ data.primaryEmailAddressID # Nil
                       /\ addrs[i].id = data.primaryEmailAddressID[1]}
    IN  IF primary # {}
        THEN addrs[CHOOSE i \in primary : \A k \in primary : i <= k]
        ELSE IF Len(addrs) > 0 THEN addrs[1]
        ELSE [id |-> "", email |-> TestEmail(data.id), verified |-> FALSE]

\* C23: the row a verified user.created stores holds the address the
\* payload designates, and its email-verified flag is TRUE exactly when
\* the verification status of that address is "verified".
C23_CreatedRowProjection ==
    [][(/\ Delivery
        /\ resp'.verified
        /\ resp'.event.type = "user.created"
        /\ resp'.message = "User created successfully")
           => /\ Len(users') = Len(users) + 1
              /\ users'[Len(users')].clerkUserID = resp'.event.data.id
              /\ users'[Len(users')].email
                     = DesignatedAddress(resp'.event.data).email
              /\ users'[Len(users')].emailVerified
                     = DesignatedAddress(resp'.event.data).verified]_vars

(***************************************************************************)
(* Properties of the stored projects and organizations.                    *)
(***************************************************************************)
\* C24: a regeneration answered 200 stores in the project a key drawn anew
\* that differs from the key it held; no live project holds the previous
\* key afterwards; and the projects are as before but for the key and
\* updated_at of that project.
C24_RegenerationReplacesKey ==
    [][(resp'.op = "project.regenerate" /\ resp'.status = StatusOK /\ now' = now)
           => LET p == resp'.proj IN
              /\ projects'[p].apiKey \in Keys
              /\ projects'[p].apiKey # projects[p].apiKey
              /\ ~APIKeyExists(projects', projects[p].apiKey)
              /\ projects' = [projects EXCEPT
                                 ![p].apiKey = projects'[p].apiKey,
                                 ![p].updatedAt = now]]_vars

\* C24 as stated: but for its key, no field of the project changes.
C24_OnlyTheKeyChanges ==
    [][(resp'.op = "project.regenerate" /\ resp'.status = StatusOK /\ now' = now)
           => projects' = [projects EXCEPT
                              ![resp'.proj].apiKey
                                  = projects'[resp'.proj].apiKey]]_vars

\* The key of a project was regenerated later than the project was
\* created.
C24_Witness ==
    /\ resp.op = "project.regenerate"
    /\ resp.status = StatusOK
    /\ ProjectGetByID(projects, resp.proj)
    /\ projects[resp.proj].apiKey \in Keys
    /\ projects[resp.proj].updatedAt = 1

\* C25: every step leaves the owner of every stored organization as it
\* was, removes no organization, and a row it adds is owned by the
\* principal of the request that added it.
C25_OwnerImmutable ==
    [][/\ Len(orgs') >= Len(orgs)
       /\ \A i \in 1..Len(orgs) : orgs'[i].owner = orgs[i].owner
       /\ \A i \in (Len(orgs) + 1)..Len(orgs') : orgs'[i].owner = resp'.uid]_vars

\* The owner updated an organization, still owns it, and another
\* organization was deleted.
C25_Witness ==
    /\ resp.op = "organization.update"
    /\ resp.status = StatusOK
    /\ OrgGetByID(orgs, resp.org)
    /\ orgs[resp.org].owner = resp.uid
    /\ \E i \in 1..Len(orgs) : orgs[i].deleted

\* The rows a query through gorm sees.
LiveRows(tbl) == SelectSeq(tbl, LAMBDA row : ~row.deleted)

\* C26: a verified delivery is answered as it would be answered by a store
\* without the soft-deleted rows.
C26_SoftDeletedRowsInvisible ==
    [][(Delivery /\ resp'.verified)
           => resp'.status
                  = dispatch(LiveRows(users), resp'.event, now).status]_vars

\* C28: a write of a project row that the store refuses because a stored
\* row holds its key, while a key that no row holds remains, does not end
\* the request with an error status.
C28_KeyCollisionIsRetried ==
    [][\A p \in Callers :
           (/\ reqs[p].pc = "write"
            /\ reqs'[p].pc = "done"
            /\ reqs[p].row.org \in 1..Len(orgs)
            /\ ~APIKeyUniqueAmongRows(projects, reqs[p].id, reqs[p].row.apiKey)
            /\ \E k \in Keys : APIKeyUniqueAmongRows(projects, 0, k))
               => reqs'[p].status < StatusBadRequest]_vars

(***************************************************************************)
(* Properties of the JWKS snapshot.                                        *)
(***************************************************************************)
\* C27: when the snapshot holds the keys K1 and is more than 5 minutes
\* old and the endpoint serves K2, a request with a token signed by a key
\* of K2 is let through, after one GET that replaces the snapshot by K2.
C27_RotationAfterOneRefresh ==
    [][(/\ resp'.op = "middleware"
        /\ now' = now
        /\ idp' = idp
        /\ jwtCache.jwks = Ptr({"k1"})
        /\ now - jwtCache.jwksTime > JWKSTTL
        /\ idp = IdP(TRUE, {"k2"})
        /\ resp'.request.token.kid = Ptr("k2"))
           => /\ resp'.nextCalled
              /\ resp'.status = 0
              /\ fetches' = Append(fetches, now)
              /\ jwtCache'.jwks = Ptr({"k2"})
              /\ jwtCache'.jwksTime = now]_vars

\* A token of K1 was verified at 0, and 6 minutes later, after the
\* rotation, a token of K2 was let through by the second GET.
C27_Witness ==
    /\ resp.op = "middleware"
    /\ resp.request.token.kid = Ptr("k2")
    /\ resp.nextCalled
    /\ now = JWKSTTL + 1
    /\ fetches = <<0, now>>
    /\ jwtCache.jwks = Ptr({"k2"})
    /\ idp.keys = {"k2"}

\* C29: a GET that fails ends its call with the error and leaves the
\* snapshot and the time it was fetched at as they were; and a call that
\* finds no snapshot, or one that is not fresh, goes on to a GET.
C29_FailedRefreshNotCached ==
    [][\A p \in Callers :
           /\ (reqs[p].pc = "fetch" /\ reqs'[p].pc = "done")
                  => /\ reqs'[p].result = "failed to fetch JWKS"
                     /\ jwtCache' = jwtCache
           /\ (CanStart(p) /\ reqs'[p] # reqs[p] /\ ~JWKSFresh(jwtCache, now))
                  => reqs'[p].pc = "fetch"]_vars

\* A GET failed on a snapshot that is not fresh, the snapshot is as the
\* first GET left it, and another call is about to send a GET.
C29_Witness ==
    \E p, q \in Callers :
        /\ reqs[p].pc = "done"
        /\ reqs[p].result = "failed to fetch JWKS"
        /\ reqs[q].pc = "fetch"
        /\ jwtCache = [EmptyJWTCache EXCEPT !.jwks = Ptr({"k1"})]
        /\ ~JWKSFresh(jwtCache, now)
        /\ Len(fetches) = 2

\* C30: a call returns a key at its check only from a snapshot that is
\* fresh, after its GET only from the set it fetched, and never when its
\* GET failed.
C30_NoStaleFallback ==
    [][\A p \in Callers :
           (reqs'[p] # reqs[p] /\ reqs'[p].pc = "done"
                /\ reqs'[p].result = "key")
               => \/ /\ CanStart(p)
                     /\ JWKSFresh(jwtCache, now)
                     /\ reqs'[p].kid \in jwtCache.jwks[1]
                  \/ /\ reqs[p].pc = "cache"
                     /\ reqs[p].kid \in reqs[p].fetched]_vars

\* The GET of a call failed while the snapshot, older than the TTL, holds
\* the kid the call asked for.
C30_Witness ==
    \E p \in Callers :
        /\ reqs[p].pc = "done"
        /\ reqs[p].result = "failed to fetch JWKS"
        /\ jwtCache.jwks # Nil
        /\ reqs[p].kid \in jwtCache.jwks[1]
        /\ now - jwtCache.jwksTime >= JWKSTTL
        /\ fetches[Len(fetches)] - jwtCache.jwksTime >= JWKSTTL

(***************************************************************************)
(* Properties of the cache under concurrent requests.                      *)
(***************************************************************************)
\* C31: no call holds jwtCache.mu, shared or exclusive, while it is at its
\* GET or its query or returns a value it copied out; no call holds a lock
\* while another holds the exclusive lock; and every step that changes the
\* snapshot or the identity map is taken by a call that holds the
\* exclusive lock.
C31_LockDiscipline ==
    [][/\ \A p \in Callers :
              reqs[p].pc \in {"outbound", "use", "lock"} => reqs[p].held = ""
       /\ \A p, q \in Callers :
              (p # q /\ reqs[p].held = "w") => reqs[q].held = ""
       /\ jwtCache' # jwtCache
              => \E p \in Callers :
                     /\ reqs[p].held = "w"
                     /\ reqs'[p].held = ""
                     /\ reqs'[p].pc = "done"]_vars

\* One call is at its GET and another at its query, neither holding a
\* lock, after a write to the snapshot.
C31_Witness ==
    \E p, q \in Callers :
        /\ reqs[p].pc = "outbound" /\ reqs[p].fn = "jwks" /\ reqs[p].held = ""
        /\ reqs[q].pc = "outbound" /\ reqs[q].fn = "user" /\ reqs[q].held = ""
        /\ jwtCache.jwks # Nil

\* C32: a request served while the snapshot is younger than 5 minutes
\* sends no GET and leaves the snapshot as it is; its token is refused
\* with 401 when the snapshot does not hold its kid, whatever the endpoint
\* serves, and let through when it does.
C32_FreshSnapshotAuthoritative ==
    [][(/\ resp'.op = "middleware"
        /\ now' = now
        /\ idp' = idp
        /\ JWKSFresh(jwtCache, now))
           => /\ fetches' = fetches
              /\ jwtCache'.jwks = jwtCache.jwks
              /\ jwtCache'.jwksTime = jwtCache.jwksTime
              /\ resp'.nextCalled
                     <=> resp'.request.token.kid[1] \in jwtCache.jwks[1]
              /\ ~resp'.nextCalled => resp'.status = StatusUnauthorized]_vars

\* A token of K2 was refused from the fresh snapshot of K1 while the
\* endpoint served K2, without a second GET.
C32_Witness ==
    /\ resp.op = "middleware"
    /\ resp.status = StatusUnauthorized
    /\ resp.request.token.kid = Ptr("k2")
    /\ idp = IdP(TRUE, {"k2"})
    /\ jwtCache.jwks = Ptr({"k1"})
    /\ JWKSFresh(jwtCache, now)
    /\ now > 0
    /\ Len(fetches) = 1

\* C33: a query that finds no live user of the subject ends its lookup
\* with "user not found" and leaves the cache as it was; a lookup that
\* finds no entry for its subject goes on to the query, and a query that
\* finds a live user goes on with the id of that user; the map holds for
\* a subject the id of a row of that subject only.
C33_AbsenceNotCached ==
    [][/\ \A c \in ClerkIDs :
              jwtCache.userIDCache[c] # NilUUID
                  => /\ jwtCache.userIDCache[c] \in 1..Len(users)
                     /\ users[jwtCache.userIDCache[c]].clerkUserID = c
       /\ \A p \in Callers :
              reqs[p].fn = "user" =>
                  /\ (/\ reqs[p].pc = "rlocked"
                      /\ reqs'[p].pc # "rlocked"
                      /\ jwtCache.userIDCache[reqs[p].arg] = NilUUID)
                         => reqs'[p].pc = "outbound"
                  /\ (/\ reqs[p].pc = "outbound"
                      /\ reqs'[p].pc # "outbound"
                      /\ \A i \in 1..Len(users) :
                             users[i].clerkUserID # reqs[p].arg
                                 \/ users[i].deleted)
                         => /\ reqs'[p].pc = "done"
                            /\ reqs'[p].result = "user not found"
                            /\ jwtCache' = jwtCache
                  /\ (/\ reqs[p].pc = "outbound"
                      /\ reqs'[p].pc # "outbound"
                      /\ \E i \in 1..Len(users) :
                             users[i].clerkUserID = reqs[p].arg
                                 /\ ~users[i].deleted)
                         => /\ reqs'[p].pc = "lock"
                            /\ reqs'[p].id \in 1..Len(users)
                            /\ users[reqs'[p].id].clerkUserID = reqs[p].arg
                            /\ ~users[reqs'[p].id].deleted]_vars

\* A lookup of user_2 ended with "user not found"; after user.created a
\* second lookup of user_2 returned the id of the new row.
C33_Witness ==
    \E p, q \in Callers :
        /\ reqs[p].pc = "done"
        /\ reqs[p].arg = "user_2"
        /\ reqs[p].result = "user not found"
        /\ reqs[q].pc = "done"
        /\ reqs[q].arg = "user_2"
        /\ reqs[q].result = "id"
        /\ reqs[q].id = 2
        /\ users[2].clerkUserID = "user_2"
        /\ jwtCache.userIDCache["user_2"] = 2

\* C34: a lookup that finds in the map an entry of its subject younger
\* than 10 minutes returns the id of the entry without a query, and
\* otherwise goes on to the query; and a step that changes the users
\* table leaves the map as it was.
C34_HitPathServesDeletedUser ==
    [][/\ users' # users => jwtCache' = jwtCache
       /\ \A p \in Callers :
              (CanStart(p) /\ reqs'[p] # reqs[p])
                  => IF UserIDCached(jwtCache, reqs'[p].clerkUserID, now)
                     THEN /\ reqs'[p].pc = "done"
                          /\ reqs'[p].result = "id"
                          /\ reqs'[p].id
                                 = jwtCache.userIDCache[reqs'[p].clerkUserID]
                     ELSE reqs'[p].pc = "query"]_vars

\* A lookup made after user.deleted returned the id of the deleted user
\* from an entry 9 minutes old.
C34_Witness ==
    \E p \in Callers :
        /\ reqs[p].pc = "done"
        /\ reqs[p].result = "id"
        /\ reqs[p].id = 1
        /\ users[1].deleted
        /\ reqs[p].at > users[1].deletedAt
        /\ reqs[p].at - jwtCache.userIDTime["user_1"] = userCacheTTL - 1

\* C35: once the snapshot holds the keys the endpoint rotated to, no write
\* puts back the keys it served before the rotation.
C35_SnapshotNeverRegresses ==
    [][jwtCache.jwks = Ptr({"k2"}) => jwtCache'.jwks = Ptr({"k2"})]_vars

\* C36: a delivery of user.created that ends while the store holds the row
\* of its event is answered 200.
C36_ConcurrentDuplicatesAre2xx ==
    \A p \in Callers :
        (/\ reqs[p].pc = "done"
         /\ \E i \in 1..Len(users) : users[i] = reqs[p].row)
            => reqs[p].status = StatusOK

\* C37: a verified user.created whose request is valid, whose subject has
\* a soft-deleted row and collides with no live user is answered 200 and
\* leaves exactly one live row of the subject.
C37_RecreationAfterDeletion ==
    [][(/\ Delivery
        /\ resp'.verified
        /\ resp'.event.type = "user.created"
        /\ parseClerkUserData(resp'.event.data)
        /\ validateCreateUser(clerkUserToCreateRequest(resp'.event.data))
               = NoError
        /\ \E i \in 1..Len(users) :
               users[i].clerkUserID = resp'.event.data.id /\ users[i].deleted
        /\ ~CollidesWithLiveUser(users,
                clerkUserToCreateRequest(resp'.event.data)))
           => /\ resp'.status = StatusOK
              /\ Cardinality({i \in 1..Len(users') :
                                 /\ users'[i].clerkUserID = resp'.event.data.id
                                 /\ ~users'[i].deleted}) = 1]_vars

(***************************************************************************)
(* Properties of the organization and project requests.                    *)
(***************************************************************************)
\* C38: a get, update, delete or regeneration addressed by a principal to
\* a project whose organization is soft-deleted is refused, with the 404
\* the claim asks for or another error status, and leaves every project
\* row as it was.
C38_DeletedOrganizationCutsOffProjects ==
    [][(/\ resp'.op \in {"project.get", "project.update", "project.delete",
                         "project.regenerate"}
        /\ resp'.uid \in Principals
        /\ resp'.proj \in 1..Len(projects)
        /\ projects[resp'.proj].org \in 1..Len(orgs)
        /\ orgs[projects[resp'.proj].org].deleted)
           => /\ resp'.status >= StatusBadRequest
              /\ projects' = projects]_vars

====
